---- MODULE Spec2Model ----
(***************************************************************************)
(* Hybrid retrieval of chat_api/rag_service.py (RAGService): the query     *)
(* normaliser, the intent flags, the keyword scorer with its specialised   *)
(* branches, query expansion and the score fusion of search_documents.     *)
(*                                                                         *)
(* Texts are strings compared character by character, as Python compares   *)
(* them.  Keyword scores are kept in twentieths of a point (Pts), so that  *)
(* the 0.05 penalty of the amount sub-branch stays an integer; semantic    *)
(* scores are kept in hundredths and fusion weights in percent.            *)
(***************************************************************************)
EXTENDS FiniteSets, Integers, Sequences, TLC

(***************************************************************************)
(* Python string primitives.                                               *)
(***************************************************************************)

\* p in t
Contains(t, p) ==
    \E i \in 1..(Len(t) - Len(p) + 1) : SubSeq(t, i, i + Len(p) - 1) = p

\* any(w in t for w in ws)
AnyIn(ws, t) == \E k \in DOMAIN ws : Contains(t, ws[k])

\* sum(1 for kw in ws if kw in t)
CountHits(ws, t) == Cardinality({k \in DOMAIN ws : Contains(t, ws[k])})

\* position of the first occurrence of p in t at or after position from, 0 if none
Find(t, p, from) ==
    LET hits == {i \in from..(Len(t) - Len(p) + 1) : SubSeq(t, i, i + Len(p) - 1) = p}
    IN  IF hits = {} THEN 0 ELSE CHOOSE i \in hits : \A j \in hits : i <= j

\* t.count(p): occurrences of p in t that do not overlap, scanning from the left
RECURSIVE CountFrom(_, _, _)
CountFrom(t, p, from) ==
    LET i == Find(t, p, from)
    IN  IF i = 0 THEN 0 ELSE 1 + CountFrom(t, p, i + Len(p))

Count(t, p) == CountFrom(t, p, 1)

UpperChars == "ABCDEFGHIJKLMNOPQRSTUVWXYZÁÉÍÓÚÜÑ"
LowerChars == "abcdefghijklmnopqrstuvwxyzáéíóúüñ"
MarkedChars == "áéíóúüñ"
BaseChars == "aeiouun"

\* the character of `to` at the place c has in `from`, c itself when it has none
MapChar(c, from, to) ==
    LET i == Find(from, c, 1) IN IF i = 0 THEN c ELSE SubSeq(to, i, i)

\* every character of t replaced by MapChar, halving t to keep the recursion shallow
RECURSIVE MapText(_, _, _)
MapText(t, from, to) ==
    IF Len(t) = 0 THEN ""
    ELSE IF Len(t) = 1 THEN MapChar(t, from, to)
    ELSE LET h == Len(t) \div 2
         IN  MapText(SubSeq(t, 1, h), from, to) \o MapText(SubSeq(t, h + 1, Len(t)), from, to)

\* str.lower()
lower(t) == MapText(t, UpperChars, LowerChars)

\* the marks dropped and the case kept
normalize_case_kept(t) == MapText(t, MarkedChars, BaseChars)

\* NFD decomposition, combining marks dropped, then lower()
normalize(t) == MapText(lower(t), MarkedChars, BaseChars)

IsSpace(c) == c \in {" ", "\t", "\n"}
IsDigit(c) == Contains("0123456789", c) /\ Len(c) = 1
IsWordChar(c) == Len(c) = 1 /\ Contains("abcdefghijklmnopqrstuvwxyz0123456789_" \o LowerChars \o UpperChars, c)

At(t, i) == IF i >= 1 /\ i <= Len(t) THEN SubSeq(t, i, i) ELSE ""

\* t.startswith(p, i - 1)
StartsAt(t, i, p) == i >= 1 /\ i + Len(p) - 1 <= Len(t) /\ SubSeq(t, i, i + Len(p) - 1) = p

\* set(t.split()): the maximal runs of non-blank characters
split(t) ==
    LET starts == {i \in 1..Len(t) : ~IsSpace(At(t, i)) /\ (i = 1 \/ IsSpace(At(t, i - 1)))}
        stop(i) == CHOOSE j \in i..Len(t) :
                       /\ \A n \in i..j : ~IsSpace(At(t, n))
                       /\ (j = Len(t) \/ IsSpace(At(t, j + 1)))
    IN  {SubSeq(t, i, stop(i)) : i \in starts}

Range(s) == {s[k] : k \in DOMAIN s}

(***************************************************************************)
(* keyword_search: the intent flags, each a test of the normalised query.  *)
(***************************************************************************)

date_question(qn) == AnyIn(<<"cuando", "fecha", "fechas", "plazo", "cronograma">>, qn)

place_question(qn) == AnyIn(<<"donde", "lugar", "presentar", "entregar">>, qn)

academic_question(qn) ==
    AnyIn(<<"criterios", "requisitos", "academico", "creditaje", "contenido", "similitud">>, qn)

restriction_trigger_kw(qn) ==
    AnyIn(<<"se pueden", "se puede", "puedo", "permiten", "permite", "instituto",
            "restriccion", "prohibido", "no se">>, qn)

restriction_question(qn) ==
    /\ restriction_trigger_kw(qn)
    /\ ~Contains(qn, "matricula por excepcion")
    /\ ~Contains(qn, "excepcion")

cost_question(qn) ==
    AnyIn(<<"cuanto", "cuesta", "costo", "precio", "pago", "tasa", "tarifa", "valor",
            "monto", "s/">>, qn)

validation_question(qn) ==
    AnyIn(<<"validar", "validacion", "finalizar", "terminar", "culminar", "obligatorio",
            "obligatoriamente", "debe", "despues de registrar", "al finalizar",
            "al terminar", "constancia">>, qn)

definition_question(qn) ==
    AnyIn(<<"que es", "cual es", "que significa", "define", "definicion", "concepto",
            "se considera", "se entiende por", "acto formal", "acto voluntario",
            "acredita la condicion">>, qn)

payment_procedure_question(qn) ==
    AnyIn(<<"varios recibos", "un solo recibo", "un recibo", "varios pagos", "puedo pagar",
            "como pago", "forma de pago", "procedimiento de pago", "en cuotas", "en partes",
            "fraccionado">>, qn)

amount_question(qn) ==
    AnyIn(<<"cuanto cuesta", "cuanto es", "cual es el costo", "cual es el precio", "monto",
            "valor", "s/", "soles">>, qn)

consequence_question(qn) ==
    AnyIn(<<"que ocurre", "que pasa", "que sucede", "dejan de matricularse",
            "no se matriculan", "no matricularse", "mas de tres", "mas de 3",
            "despues de tres", "luego de tres", "pierden", "perder la condicion",
            "volver a postular">>, qn)

credits_question(qn) ==
    AnyIn(<<"creditos adicionales", "creditos extra", "creditos de mas",
            "cuantos creditos adicionales", "cuantos creditos extras",
            "cuantos creditos mas", "creditos adicionales me otorga",
            "sin cursos pendientes", "no tengo cursos pendientes",
            "ningun curso pendiente", "sin ningún curso pendiente">>, qn)

contact_question(qn) ==
    AnyIn(<<"que correo", "cual es el correo", "correo electronico", "a que correo",
            "donde contactar", "como contactar", "talleres extracurriculares", "talleres",
            "inscribirme en talleres", "oficina de", "upacdr">>, qn)

ExceptionPhrases ==
    <<"matricula por excepcion", "por excepcion", "excepcionalmente",
      "faltan dos asignaturas", "dos asignaturas para egresar", "una es prerrequisito",
      "llevarlas juntas", "llevar en paralelo", "llevar las dos">>

exception_enrollment_question(qn) == AnyIn(ExceptionPhrases, qn)

authority_question(qn) ==
    AnyIn(<<"quien establece", "quien programa", "quien define", "quien aprueba",
            "quien determina", "que entidad", "que organo", "consejo universitario",
            "decano", "director", "vicerrectorado">>, qn)

equivalence_question(qn) ==
    AnyIn(<<"equivalente", "equivale", "es equivalente a", "abandono es equivalente",
            "condicion de abandono", "conteo de matriculas", "matriculas ejecutadas">>, qn)

\* the flags keyword_search computes before its document loop
IntentFlags(qn) ==
    [date |-> date_question(qn), place |-> place_question(qn),
     academic |-> academic_question(qn), restriction |-> restriction_question(qn),
     cost |-> cost_question(qn), validation |-> validation_question(qn),
     definition |-> definition_question(qn),
     payment_procedure |-> payment_procedure_question(qn),
     amount |-> amount_question(qn), consequence |-> consequence_question(qn),
     credits |-> credits_question(qn), contact |-> contact_question(qn),
     exception_enrollment |-> exception_enrollment_question(qn),
     authority |-> authority_question(qn), equivalence |-> equivalence_question(qn)]

(***************************************************************************)
(* keyword_search: synonym expansion of the query words.                   *)
(***************************************************************************)

synonyms ==
    <<<<"matricula", "inscripcion", "registro">>,
      <<"convalidacion", "validacion", "reconocimiento">>,
      <<"excepcion", "especial", "extraordinaria">>,
      <<"requisitos", "documentos", "expediente">>,
      <<"cronograma", "fecha", "fechas", "calendario", "plazo", "cuando", "cuanto">>,
      <<"reserva", "suspension", "pausa">>,
      <<"reactualizacion", "reactivacion", "renovacion">>,
      <<"presentar", "entregar", "donde", "lugar">>,
      <<"expediente", "tramite", "solicitud", "documento">>,
      <<"criterios", "requisitos", "condiciones", "exigencias">>,
      <<"academicos", "academicas", "educativos", "curriculares">>,
      <<"creditaje", "creditos", "credito", "unidades">>,
      <<"contenidos", "contenido", "temas", "silabo", "programa">>,
      <<"similitud", "equivalencia", "parecido", "semejanza">>,
      <<"institutos", "instituto", "cetpro", "senati", "sencico">>,
      <<"restricciones", "limitaciones", "prohibiciones", "no se puede", "no se permite">>,
      <<"pueden", "puede", "se puede", "es posible", "permiten">>,
      <<"costo", "precio", "pago", "tasa", "tarifa", "cuanto cuesta", "cuanto es", "valor", "monto">>,
      <<"modalidad", "tipo", "categoria", "ordinario", "profesional", "ceprunsa", "traslado">>,
      <<"validar", "validacion", "confirmar", "confirmacion">>,
      <<"obligatorio", "obligatoriamente", "debe", "requerido", "necesario">>,
      <<"finalizar", "terminar", "culminar", "concluir", "completar">>,
      <<"constancia", "documento", "comprobante", "certificado">>,
      <<"imprimir", "descargar", "obtener">>,
      <<"acto", "accion", "procedimiento", "proceso", "tramite">>,
      <<"formal", "oficial", "administrativo">>,
      <<"acredita", "certifica", "avala", "valida", "reconoce">>,
      <<"condicion", "estado", "situacion", "calidad">>,
      <<"que es", "cual es", "define", "definicion", "concepto", "significa">>,
      <<"ocurre", "pasa", "sucede", "acontece", "resulta">>,
      <<"dejan", "abandonan", "no se matriculan", "no matricularse", "dejar de">>,
      <<"pierden", "perder", "perdida", "perderse">>,
      <<"postular", "volver a postular", "postulacion", "admision">>,
      <<"adicionales", "extras", "extra", "mas", "de mas">>,
      <<"otorga", "da", "concede", "permite", "autoriza">>,
      <<"pendiente", "sin aprobar", "reprobado", "desaprobado">>,
      <<"contactar", "comunicarse", "escribir", "enviar mensaje">>,
      <<"correo", "email", "correo electronico", "direccion electronica">>,
      <<"talleres", "taller", "extracurriculares", "extracurricular", "actividades complementarias">>,
      <<"inscribirse", "inscripcion", "registrarse", "registro", "matricularse">>,
      <<"egresar", "culminar", "terminar", "finalizar carrera">>,
      <<"paralelo", "simultaneo", "al mismo tiempo", "juntas", "juntos">>,
      <<"faltan", "me faltan", "solo me faltan", "quedan">>>>

\* the expansion applied a second time to the words the first pass added
expanded_words_transitive(qn) ==
    LET hit(ws) == UNION {Range(synonyms[k]) :
                            k \in {j \in DOMAIN synonyms : ws \cap Range(synonyms[j]) # {}}}
        first == split(qn) \cup hit(split(qn))
    IN  first \cup hit(first)

\* expanded_words: the query words and every synonym list one of them is in
expanded_words(qn) ==
    LET query_words == split(qn)
    IN  query_words \cup
        UNION {Range(synonyms[k]) : k \in {j \in DOMAIN synonyms : query_words \cap Range(synonyms[j]) # {}}}

(***************************************************************************)
(* Documents are records of the dataset; an attribute may be missing.      *)
(***************************************************************************)

\* doc.get(k) is present and truthy, for a text attribute and for the fee
HasText(doc, k) == k \in DOMAIN doc /\ doc[k] # ""
HasFee(doc) == "tasa_soles" \in DOMAIN doc /\ doc.tasa_soles # 0

\* a score of n points, in twentieths of a point
Pts(n) == 20 * n

(***************************************************************************)
(* keyword_search: the specialised branches, on the normalised content cn. *)
(***************************************************************************)

\* the tiers shared by the authority, equivalence and exception branches
TierScore(perfect, matches) ==
    IF perfect THEN Pts(4000)
    ELSE IF matches >= 3 THEN Pts(3500)
    ELSE IF matches >= 2 THEN Pts(2500 + matches * 200)
    ELSE IF matches = 1 THEN Pts(1000)
    ELSE Pts(20)

authority_score(cn) ==
    LET matches == CountHits(<<"consejo universitario", "establecera", "establece",
                               "calendario academico", "programa las fechas", "programara",
                               "articulo 11", "anualmente">>, cn)
        has_council == Contains(cn, "consejo universitario")
        has_calendar == Contains(cn, "calendario academico")
        has_establish == AnyIn(<<"establecera", "establece", "programa">>, cn)
    IN  TierScore(has_council /\ has_calendar /\ has_establish, matches)

equivalence_score(cn) ==
    LET matches == CountHits(<<"abandono", "equivalente", "desaprobacion",
                               "conteo de matriculas", "matriculas ejecutadas",
                               "calificacion final", "disposicion final", "primera">>, cn)
        has_abandonment == Contains(cn, "abandono")
        has_equivalent == AnyIn(<<"equivalente", "equivale">>, cn)
        has_disapproval == Contains(cn, "desaprobacion")
        has_counting == AnyIn(<<"conteo de matriculas", "matriculas ejecutadas">>, cn)
    IN  TierScore(has_abandonment /\ has_equivalent /\ (has_disapproval \/ has_counting),
                  matches)

exception_score(cn) ==
    LET matches == CountHits(<<"matricula por excepcion", "excepcion", "dos (2) asignaturas",
                               "dos asignaturas", "para egresar", "egresar", "prerrequisito",
                               "en paralelo", "llevar las dos", "simultaneamente">>, cn)
        has_two_courses == AnyIn(<<"dos (2) asignaturas", "dos asignaturas", "falte solo dos">>, cn)
        has_prerequisite == Contains(cn, "prerrequisito")
        has_parallel == AnyIn(<<"en paralelo", "llevar las dos", "llevar los dos">>, cn)
    IN  TierScore(has_two_courses /\ has_prerequisite /\ has_parallel, matches)

\* the tiers shared by the contact and credits branches
TierScore2(perfect, good, matches) ==
    IF perfect THEN Pts(3500)
    ELSE IF good THEN Pts(3000)
    ELSE IF matches >= 2 THEN Pts(2500 + matches * 200)
    ELSE IF matches = 1 THEN Pts(1000)
    ELSE Pts(20)

contact_score(cn) ==
    LET matches == CountHits(<<"talleres extracurriculares", "taller", "correo", "upacdr",
                               "oficina de promocion", "arte, cultura, deporte", "contactar",
                               "inscripcion", "@unsa.edu.pe">>, cn)
        has_talleres == Contains(cn, "talleres extracurriculares")
        has_email == Contains(cn, "@unsa.edu.pe") \/ Contains(cn, "upacdr")
        has_office == Contains(cn, "oficina")
    IN  TierScore2(has_talleres /\ has_email, has_talleres \/ (has_email /\ has_office), matches)

credits_score(cn) ==
    LET matches == CountHits(<<"seis (6) creditos adicionales", "seis (06) creditos adicionales",
                               "6 creditos adicionales", "06 creditos adicionales",
                               "creditos adicionales", "sin cursos pendientes",
                               "ningun curso pendiente", "no tengan ningun curso",
                               "sistema considera automaticamente">>, cn)
        has_six == AnyIn(<<"seis (6)", "seis (06)", "6 creditos", "06 creditos">>, cn)
        has_additional == Contains(cn, "creditos adicionales")
        has_no_pending == AnyIn(<<"sin cursos pendientes", "ningun curso pendiente",
                                  "no tengan ningun curso">>, cn)
    IN  TierScore2(has_six /\ has_additional /\ has_no_pending, has_six /\ has_additional, matches)

consequence_score(cn) ==
    LET matches == CountHits(<<"perderan", "pierden", "perder", "perdida",
                               "condicion de estudiante", "condicion", "postular nuevamente",
                               "volver a postular", "postulacion", "mas de tres",
                               "mas de 3 anos", "tres anos", "consecutivos o alternos",
                               "consecutivos", "alternos">>, cn)
    IN  IF matches >= 2 THEN Pts(3000 + matches * 300)
        ELSE IF matches = 1 THEN Pts(1500)
        ELSE Pts(20)

definition_score(qn, cn) ==
    LET matches == CountHits(<<"es el acto", "se considera", "se define", "definicion",
                               "acto formal", "acto voluntario", "acredita",
                               "condicion de estudiante", "articulo 3", "articulo 4",
                               "articulo">>, cn)
    IN  IF Contains(qn, "acto formal") /\ Contains(qn, "acredita")
        THEN IF /\ Contains(cn, "acto formal") /\ Contains(cn, "acredita")
                /\ Contains(cn, "condicion de estudiante")
             THEN Pts(3000) ELSE Pts(50)
        ELSE IF matches > 0 THEN Pts(2000 + matches * 200) ELSE Pts(20)

\* the validation branch without its floor of 10
validation_score_no_floor(cn) ==
    LET matches == CountHits(<<"validar", "validacion", "validar su matricula", "obligatorio",
                               "obligado", "debe", "constancia", "imprimir", "finalizar",
                               "finalmente">>, cn)
    IN  IF matches > 0 THEN Pts(2000 + matches * 200) ELSE 0

validation_score(cn) ==
    LET matches == CountHits(<<"validar", "validacion", "validar su matricula", "obligatorio",
                               "obligado", "debe", "constancia", "imprimir", "finalizar",
                               "finalmente">>, cn)
    IN  IF matches > 0 THEN Pts(2000 + matches * 200) ELSE Pts(10)

(***************************************************************************)
(* keyword_search: the three sub-branches of the cost branch.              *)
(***************************************************************************)

payment_procedure_score(cn) ==
    LET keyword_count == CountHits(<<"recibo", "recibos", "un solo", "todas las asignaturas",
                                     "monto total", "pago">>, cn)
    IN  IF keyword_count > 0 THEN Pts(2000 + keyword_count * 100) ELSE Pts(5)

modalidades_en_query(qn) ==
    (IF Contains(qn, "ordinario") THEN <<"ordinario">> ELSE <<>>)
    \o (IF Contains(qn, "profesional") \/ Contains(qn, "profesionales")
        THEN <<"profesionales">> ELSE <<>>)
    \o (IF Contains(qn, "ceprunsa") THEN <<"ceprunsa">> ELSE <<>>)
    \o (IF Contains(qn, "traslado") THEN <<"traslado">> ELSE <<>>)

procedencias_en_query(qn) ==
    (IF Contains(qn, "otra escuela") \/ Contains(qn, "escuela unsa")
     THEN {"otra_escuela_unsa"} ELSE {})
    \cup (IF Contains(qn, "universidad nacional") /\ Contains(qn, "otra")
          THEN {"universidad_nacional_otra"} ELSE {})
    \cup (IF Contains(qn, "universidad particular") \/ Contains(qn, "universidad privada")
          THEN {"universidad_particular"} ELSE {})

\* the provenance the query names is the one of the document's modality attribute
procedencia_match(qn, doc_modalidad_norm) ==
    LET procedencias == procedencias_en_query(qn)
    IN  IF "universidad_particular" \in procedencias
        THEN Contains(doc_modalidad_norm, "universidad particular")
        ELSE IF "universidad_nacional_otra" \in procedencias
        THEN Contains(doc_modalidad_norm, "universidad nacional")
             /\ Contains(doc_modalidad_norm, "otra")
        ELSE IF "otra_escuela_unsa" \in procedencias
        THEN Contains(doc_modalidad_norm, "otra escuela de la unsa")
             \/ Contains(doc_modalidad_norm, "escuela de la unsa")
        ELSE FALSE

\* the amount sub-branch without the test of the fee
amount_score_fee_unchecked(qn, doc) ==
    IF ~HasText(doc, "modalidad_pago_relacionada") THEN Pts(1000)
    ELSE LET doc_modalidad_norm == normalize(doc.modalidad_pago_relacionada)
             modalidades == modalidades_en_query(qn)
             modalidad_match == AnyIn(modalidades, doc_modalidad_norm)
             proc_match == procedencia_match(qn, doc_modalidad_norm)
             bonus == Pts(1000) + (IF modalidad_match THEN Pts(500) ELSE 0)
                                + (IF proc_match THEN Pts(800) ELSE 0)
             reset == IF modalidades # <<>> /\ ~modalidad_match THEN Pts(10) ELSE bonus
         IN  IF procedencias_en_query(qn) # {} /\ ~proc_match
             THEN reset \div 20
             ELSE reset

amount_score(qn, doc) ==
    IF ~HasFee(doc) THEN 0
    ELSE IF ~HasText(doc, "modalidad_pago_relacionada") THEN Pts(1000)
    ELSE LET doc_modalidad_norm == normalize(doc.modalidad_pago_relacionada)
             modalidades == modalidades_en_query(qn)
             modalidad_match == AnyIn(modalidades, doc_modalidad_norm)
             proc_match == procedencia_match(qn, doc_modalidad_norm)
             bonus == Pts(1000) + (IF modalidad_match THEN Pts(500) ELSE 0)
                                + (IF proc_match THEN Pts(800) ELSE 0)
             reset == IF modalidades # <<>> /\ ~modalidad_match THEN Pts(10) ELSE bonus
         IN  IF procedencias_en_query(qn) # {} /\ ~proc_match
             THEN reset \div 20
             ELSE reset

generic_cost_score(doc, cn) ==
    IF HasFee(doc) THEN Pts(1000)
    ELSE IF AnyIn(<<"recibo", "pago", "un solo", "todas las asignaturas">>, cn) THEN Pts(1500)
    ELSE 0

\* the cost branch with the amount test ahead of the procedure test
cost_score_amount_first(qn, flags, doc, cn) ==
    IF flags.amount THEN amount_score(qn, doc)
    ELSE IF flags.payment_procedure THEN payment_procedure_score(cn)
    ELSE generic_cost_score(doc, cn)

cost_score(qn, flags, doc, cn) ==
    IF flags.payment_procedure THEN payment_procedure_score(cn)
    ELSE IF flags.amount THEN amount_score(qn, doc)
    ELSE generic_cost_score(doc, cn)

(***************************************************************************)
(* keyword_search: the general scorer and its bonuses.                     *)
(***************************************************************************)

RECURSIVE SumOver(_, _)
SumOver(S, f) ==
    IF S = {} THEN 0 ELSE LET e == CHOOSE e \in S : TRUE IN f[e] + SumOver(S \ {e}, f)

\* the word overlap counting a word once however often it occurs
term_overlap_score_once(qn, words, cn) ==
    SumOver(words, [w \in words |-> IF Contains(cn, w) THEN 2 ELSE 0])
    + (IF Contains(cn, qn) THEN 30 ELSE 0)

\* 2 points per occurrence of an expanded word, 30 for the whole query
term_overlap_score(qn, words, cn) ==
    SumOver(words, [w \in words |-> 2 * Count(cn, w)])
    + (IF Contains(cn, qn) THEN 30 ELSE 0)

sub_categoria_norm(doc) ==
    IF HasText(doc, "sub_categoria") THEN normalize(doc.sub_categoria) ELSE ""

restriction_bonus(doc, cn) ==
    60 * CountHits(<<"no se convalidan", "restriccion", "prohibido", "no se permite",
                     "instituto", "institutos", "obligatorio">>, cn)
    + (IF Contains(sub_categoria_norm(doc), "restriccion")
          \/ Contains(sub_categoria_norm(doc), "limitacion") THEN 70 ELSE 0)
    + 50 * CountHits(<<"no se convalidan", "no se puede", "no se permite", "prohibido",
                       "es obligatorio">>, cn)

academic_bonus(doc, cn) ==
    40 * CountHits(<<"creditaje", "creditos", "similitud", "80%", "contenido", "igual",
                     "mayor">>, cn)
    + (IF Contains(sub_categoria_norm(doc), "academico") THEN 50 ELSE 0)

\* the first position at or after i that holds no blank
RECURSIVE SkipSpaces(_, _)
SkipSpaces(t, i) == IF IsSpace(At(t, i)) THEN SkipSpaces(t, i + 1) ELSE i

\* re.search(r'\d{1,2}\s+de\s+\w+', t)
MatchesDayOfMonth(t) ==
    \E i \in 1..Len(t) :
        /\ IsDigit(At(t, i))
        /\ LET j == SkipSpaces(t, i + 1)
               k == SkipSpaces(t, j + 2)
           IN  /\ j > i + 1
               /\ StartsAt(t, j, "de")
               /\ k > j + 2
               /\ IsWordChar(At(t, k))

\* re.search(r'del\s+\d{1,2}\s+al\s+\d{1,2}', t)
MatchesDayRange(t) ==
    \E i \in 1..Len(t) : \E d \in 1..2 :
        /\ StartsAt(t, i, "del")
        /\ LET j == SkipSpaces(t, i + 3)
               k == SkipSpaces(t, j + d)
               m == SkipSpaces(t, k + 2)
           IN  /\ j > i + 3
               /\ \A n \in j..(j + d - 1) : IsDigit(At(t, n))
               /\ k > j + d
               /\ StartsAt(t, k, "al")
               /\ m > k + 2
               /\ IsDigit(At(t, m))

\* re.search(r'\d{1,2}\s*[-/]\s*\d{1,2}', t)
MatchesNumericDate(t) ==
    \E i \in 1..Len(t) :
        /\ IsDigit(At(t, i))
        /\ LET j == SkipSpaces(t, i + 1)
           IN  /\ At(t, j) \in {"-", "/"}
               /\ IsDigit(At(t, SkipSpaces(t, j + 1)))

has_date_pattern(cn) ==
    MatchesDayOfMonth(cn) \/ MatchesDayRange(cn) \/ MatchesNumericDate(cn)

\* the date bonus with 50 for every pattern that matches
date_bonus_per_pattern(doc, cn) ==
    (IF MatchesDayOfMonth(cn) THEN 50 ELSE 0)
    + (IF MatchesDayRange(cn) THEN 50 ELSE 0)
    + (IF MatchesNumericDate(cn) THEN 50 ELSE 0)
    + (IF HasText(doc, "fecha_relevante") THEN 40 ELSE 0)
    + (IF HasText(doc, "actividad_cronograma") THEN 30 ELSE 0)

date_bonus(doc, cn) ==
    (IF has_date_pattern(cn) THEN 50 ELSE 0)
    + (IF HasText(doc, "fecha_relevante") THEN 40 ELSE 0)
    + (IF HasText(doc, "actividad_cronograma") THEN 30 ELSE 0)

place_bonus(doc, cn) ==
    20 * CountHits(<<"escuela", "oficina", "caja", "lugar", "presentar", "entregar">>, cn)
    + (IF HasText(doc, "lugar_pago") THEN 35 ELSE 0)

\* 10 for each keyword of the document that occurs, normalised, in the query
keywords_bonus(qn, doc) ==
    IF "keywords" \in DOMAIN doc
    THEN 10 * Cardinality({k \in DOMAIN doc.keywords : Contains(qn, normalize(doc.keywords[k]))})
    ELSE 0

categoria_bonus(words, doc) ==
    IF HasText(doc, "categoria_principal")
       /\ \E w \in words : Contains(normalize(doc.categoria_principal), w)
    THEN 15 ELSE 0

general_score(qn, flags, doc, cn) ==
    LET words == expanded_words(qn)
    IN  Pts(term_overlap_score(qn, words, cn)
            + (IF flags.restriction THEN restriction_bonus(doc, cn) ELSE 0)
            + (IF flags.academic THEN academic_bonus(doc, cn) ELSE 0)
            + (IF flags.date THEN date_bonus(doc, cn) ELSE 0)
            + (IF flags.place THEN place_bonus(doc, cn) ELSE 0)
            + keywords_bonus(qn, doc)
            + categoria_bonus(words, doc))

(***************************************************************************)
(* keyword_search: the body of the document loop.  The first active       *)
(* specialised flag scores the document and ends the iteration.            *)
(***************************************************************************)

\* the document loop with the restriction bonus applied ahead of the specialised
\* branches: a restriction question is scored by the general scorer
keyword_score_restriction_first(qn, flags, doc) ==
    LET cn == normalize(doc.content)
    IN  IF flags.restriction THEN general_score(qn, flags, doc, cn)
        ELSE IF flags.authority THEN authority_score(cn)
        ELSE IF flags.equivalence THEN equivalence_score(cn)
        ELSE IF flags.exception_enrollment THEN exception_score(cn)
        ELSE IF flags.contact THEN contact_score(cn)
        ELSE IF flags.credits THEN credits_score(cn)
        ELSE IF flags.consequence THEN consequence_score(cn)
        ELSE IF flags.definition THEN definition_score(qn, cn)
        ELSE IF flags.validation THEN validation_score(cn)
        ELSE IF flags.cost THEN cost_score(qn, flags, doc, cn)
        ELSE general_score(qn, flags, doc, cn)

keyword_score(qn, flags, doc) ==
    LET cn == normalize(doc.content)
    IN  IF flags.authority THEN authority_score(cn)
        ELSE IF flags.equivalence THEN equivalence_score(cn)
        ELSE IF flags.exception_enrollment THEN exception_score(cn)
        ELSE IF flags.contact THEN contact_score(cn)
        ELSE IF flags.credits THEN credits_score(cn)
        ELSE IF flags.consequence THEN consequence_score(cn)
        ELSE IF flags.definition THEN definition_score(qn, cn)
        ELSE IF flags.validation THEN validation_score(cn)
        ELSE IF flags.cost THEN cost_score(qn, flags, doc, cn)
        ELSE general_score(qn, flags, doc, cn)

\* keyword_search(query, documents) as a whole: position -> score
keyword_search(query_text, docs) ==
    LET qn == normalize(query_text)
        flags == IntentFlags(qn)
    IN  [i \in 0..(Len(docs) - 1) |-> keyword_score(qn, flags, docs[i + 1])]

(***************************************************************************)
(* expand_query: dictionary and contextual expansion of the raw query.     *)
(***************************************************************************)

\* key term -> expansions (_build_expansion_dictionary)
query_expansion_dict ==
    <<<<"matricula regular", <<"matricula ordinaria", "matricula normal",
          "proceso de matricula", "registro de matricula">>>>,
      <<"matricula ordinaria", <<"matricula regular", "matricula normal",
          "primer ingreso">>>>,
      <<"matricula por excepcion", <<"matricula excepcional", "excepcion de matricula",
          "caso especial matricula">>>>,
      <<"por egresar", <<"falta una asignatura", "falta un curso", "para culminar",
          "dos asignaturas para egresar">>>>,
      <<"convalidacion", <<"reconocimiento de creditos", "homologacion de asignaturas",
          "validacion de cursos">>>>,
      <<"convalidar", <<"validar cursos", "reconocer creditos", "homologar asignaturas">>>>,
      <<"reserva de matricula", <<"suspension temporal de estudios", "pausa voluntaria",
          "diferir matricula">>>>,
      <<"reserva", <<"suspension temporal", "pausa de estudios", "diferir", "postergar">>>>,
      <<"reactualizacion de matricula", <<"reactivacion de matricula",
          "renovacion de matricula", "derecho de reactualizacion">>>>,
      <<"reactualizacion", <<"reactivacion", "renovacion matricula",
          "derecho reactualizacion">>>>,
      <<"levantamiento de reserva", <<"retorno de reserva", "volver despues de reserva",
          "reactivar despues de reserva">>>>,
      <<"levantamiento", <<"retorno", "volver de reserva", "culminar reserva">>>>,
      <<"caja unsa", <<"caja de la universidad", "tesoreria unsa", "moral 316",
          "cajas de las areas", "cercado">>>>,
      <<"moral 316", <<"calle moral 316", "cercado arequipa", "caja central",
          "caja unsa">>>>,
      <<"cajas de las areas", <<"cajas areas", "caja area", "tesoreria area">>>>,
      <<"banco de credito", <<"bcp", "banco credito peru", "agencia bcp",
          "banca movil bcp">>>>,
      <<"bcp", <<"banco de credito", "banco credito peru", "agentes bcp">>>>,
      <<"unsapay", <<"portal unsapay", "ouis unsapay", "cuenta unsa virtual">>>>,
      <<"pagar reactualizacion", <<"derecho de reactualizacion", "tasa reactualizacion",
          "150 soles", "caja unsa reactualizacion", "moral 316", "cajas de las areas",
          "lugar pago reactualizacion", "donde pagar reactualizacion">>>>,
      <<"derecho de reactualizacion", <<"tasa de reactualizacion",
          "pago por reactualizacion", "s/ 150", "caja unsa">>>>,
      <<"lugares reactualizacion", <<"caja unsa", "moral 316", "cajas areas",
          "lugar pago">>>>,
      <<"donde pago reactualizacion", <<"caja unsa", "moral 316", "cajas areas",
          "lugar especifico">>>>,
      <<"pagar matricula regular", <<"talon de pago bcp", "pago en banco",
          "matricula virtual">>>>,
      <<"talon de pago", <<"recibo de pago", "voucher matricula", "comprobante bcp">>>>,
      <<"pagar convalidacion", <<"tasa de convalidacion", "derecho por curso",
          "recibo convalidacion", "caja unsa">>>>,
      <<"tasa de convalidacion", <<"costo por curso", "pago por asignatura convalidada">>>>,
      <<"pagar modificacion", <<"derecho de modificacion", "rectificacion de matricula",
          "unsapay modificacion">>>>,
      <<"pagar reserva", <<"derecho de reserva", "tasa reserva", "50 soles",
          "caja unsa reserva">>>>,
      <<"escuela profesional", <<"escuela correspondiente", "direccion de escuela",
          "oficina de escuela">>>>,
      <<"dsa", <<"direccion de servicios academicos", "oficina dsa", "dsa@unsa.edu.pe">>>>,
      <<"dsa@unsa.edu.pe", <<"correo dsa", "email dsa", "direccion servicios academicos">>>>,
      <<"upacdr_talleres@unsa.edu.pe", <<"correo talleres", "oficina talleres", "upacdr">>>>,
      <<"modalidad ordinario", <<"ingreso ordinario", "admision ordinaria",
          "examen ordinario">>>>,
      <<"modalidad profesionales", <<"adulto trabajador", "profesional trabajador",
          "segunda profesion">>>>,
      <<"ceprunsa", <<"centro preuniversitario", "preuniversitario unsa", "cepru">>>>,
      <<"traslado externo", <<"traslado de otra universidad", "cambio de universidad">>>>,
      <<"traslado interno", <<"cambio de escuela unsa", "traslado entre escuelas">>>>,
      <<"otra escuela unsa", <<"escuela de la unsa", "otra escuela de la universidad">>>>,
      <<"universidad nacional", <<"universidad publica", "universidad estatal">>>>,
      <<"universidad particular", <<"universidad privada", "universidad de pago">>>>,
      <<"expediente", <<"documentos tramite", "papeles necesarios",
          "documentacion completa">>>>,
      <<"requisitos", <<"documentos necesarios", "papeles requeridos", "exigencias">>>>,
      <<"certificado de estudios", <<"record academico", "notas certificadas",
          "historial academico">>>>,
      <<"silabo", <<"programa de asignatura", "contenido del curso", "plan de estudios">>>>,
      <<"recibo de pago", <<"boleta de pago", "voucher", "comprobante de pago",
          "boleta electronica">>>>,
      <<"constancia de matricula", <<"comprobante de matricula",
          "certificado de matricula">>>>,
      <<"criterios academicos", <<"requisitos academicos", "condiciones academicas",
          "exigencias academicas">>>>,
      <<"creditaje", <<"creditos", "unidades de credito", "carga academica">>>>,
      <<"similitud de contenidos", <<"equivalencia de contenidos", "parecido de temas",
          "80 por ciento">>>>,
      <<"80%", <<"ochenta por ciento", "80 por ciento de similitud", "ochenta porciento">>>>,
      <<"no se convalidan", <<"no se permite convalidar", "prohibido convalidar",
          "restriccion de convalidacion">>>>,
      <<"institutos", <<"cetpro", "senati", "sencico", "instituto tecnico",
          "instituto superior">>>>,
      <<"obligatorio", <<"requerido", "necesario", "indispensable", "mandatorio">>>>,
      <<"cronograma", <<"calendario academico", "fechas programadas", "agenda academica">>>>,
      <<"plazo", <<"fecha limite", "tiempo limite", "vencimiento">>>>,
      <<"grupo 1", <<"primer grupo", "primer turno matricula">>>>,
      <<"grupo 2", <<"segundo grupo", "segundo turno matricula">>>>,
      <<"grupo 3", <<"tercer grupo", "tercer turno matricula">>>>,
      <<"validar matricula", <<"confirmar matricula", "finalizar matricula",
          "culminar registro">>>>,
      <<"imprimir constancia", <<"descargar constancia", "obtener comprobante",
          "guardar constancia">>>>,
      <<"perder condicion", <<"perdida de condicion", "cesacion de estudios",
          "separacion definitiva">>>>,
      <<"volver a postular", <<"postular nuevamente", "nueva admision",
          "reingreso por admision">>>>,
      <<"mas de tres años", <<"tres años consecutivos", "tres años alternos",
          "mas de 3 años">>>>,
      <<"abandono", <<"no rendir evaluaciones", "inasistencia total", "no presentarse">>>>,
      <<"equivalente a desaprobacion", <<"cuenta como desaprobado",
          "equivale a reprobacion">>>>,
      <<"conteo de matriculas", <<"matriculas ejecutadas", "matriculas realizadas">>>>,
      <<"consejo universitario", <<"organo de gobierno", "autoridad universitaria",
          "maximo organo">>>>,
      <<"decano", <<"director de facultad", "autoridad de facultad">>>>,
      <<"director de escuela", <<"jefe de escuela", "autoridad de escuela">>>>,
      <<"creditos adicionales", <<"creditos extra", "creditos de mas",
          "creditos excedentes">>>>,
      <<"seis creditos", <<"6 creditos", "06 creditos", "seis (6) creditos">>>>,
      <<"sin cursos pendientes", <<"ningun curso pendiente",
          "no tiene cursos reprobados", "sin deudas academicas">>>>,
      <<"talleres extracurriculares", <<"actividades extracurriculares",
          "talleres complementarios", "cursos libres">>>>,
      <<"upacdr", <<"oficina de promocion arte cultura", "oficina talleres">>>>,
      <<"donde pago", <<"lugar de pago", "sitio para pagar", "oficina de pagos", "caja">>>>,
      <<"lugares pago", <<"sitios de pago", "oficinas pago", "caja", "banco">>>>,
      <<"lugar especifico", <<"sitio exacto", "direccion", "ubicacion">>>>,
      <<"cuando puedo", <<"fechas para", "plazo para", "cronograma de">>>>,
      <<"cuanto cuesta", <<"cual es el costo", "precio", "tasa", "monto">>>>,
      <<"que documentos", <<"requisitos documentarios", "papeles necesarios",
          "expediente completo">>>>>>

\* contextual rules: the literals of a pattern lit1.*lit2.*lit3 -> terms
expansion_rules ==
    <<<<<<"donde", "pagar", "reactualizacion">>, <<"caja unsa", "moral 316", "cercado",
          "cajas areas", "lugar pago", "derecho reactualizacion", "150 soles">>>>,
      <<<<"donde", "pagar", "matricula">>, <<"banco credito peru", "bcp",
          "portal matriculas", "talon pago">>>>,
      <<<<"donde", "pagar", "convalidacion">>, <<"caja unsa", "moral 316", "tasas",
          "recibo">>>>,
      <<<<"donde", "presentar", "expediente">>, <<"escuela profesional", "en fisico",
          "completo">>>>,
      <<<<"donde", "entregar">>, <<"escuela", "oficina", "mesa partes">>>>,
      <<<<"cuando", "puedo", "matricular">>, <<"cronograma", "fechas matricula",
          "calendario academico", "grupo">>>>,
      <<<<"cuando", "presentar">>, <<"cronograma", "fechas presentacion", "plazo",
          "17 marzo", "28 marzo">>>>,
      <<<<"cuanto", "cuesta", "reactualizacion">>, <<"150 soles",
          "derecho reactualizacion", "tasa">>>>,
      <<<<"cuanto", "cuesta", "convalidacion">>, <<"tasa", "ordinario 35", "profesional",
          "universidad particular">>>>,
      <<<<"que", "necesito", "convalidar">>, <<"expediente", "certificado", "silabo",
          "recibo", "dni">>>>,
      <<<<"que", "documentos">>, <<"requisitos", "expediente", "solicitud",
          "certificado">>>>,
      <<<<"dos", "asignaturas", "egresar">>, <<"matricula por excepcion",
          "llevar en paralelo", "prerrequisito">>>>,
      <<<<"excepcion", "matricula">>, <<"por egresar", "dos cursos", "curriculo rigido">>>>,
      <<<<"quien", "establece", "cronograma">>, <<"consejo universitario",
          "calendario academico", "programa fechas">>>>>>

\* re.search of lit1.*lit2...: the literals occur in this order without overlapping
RECURSIVE InOrderFrom(_, _, _, _)
InOrderFrom(t, lits, n, from) ==
    IF n > Len(lits) THEN TRUE
    ELSE LET i == Find(t, lits[n], from)
         IN  i # 0 /\ InOrderFrom(t, lits, n + 1, i + Len(lits[n]))

InOrder(t, lits) == InOrderFrom(t, lits, 1, 1)

\* the concatenation of ss[lo..hi], halving the range to keep the recursion shallow
RECURSIVE FlattenRange(_, _, _)
FlattenRange(ss, lo, hi) ==
    IF lo > hi THEN <<>>
    ELSE IF lo = hi THEN ss[lo]
    ELSE LET mid == (lo + hi) \div 2
         IN  FlattenRange(ss, lo, mid) \o FlattenRange(ss, mid + 1, hi)

Flatten(ss) == FlattenRange(ss, 1, Len(ss))

\* s without the repetitions of its elements, first occurrences kept in order
Dedup(s) ==
    LET keep == {k \in DOMAIN s : \A j \in 1..(k - 1) : s[j] # s[k]}
        nth(n) == CHOOSE k \in keep : Cardinality({j \in keep : j <= k}) = n
    IN  [n \in 1..Cardinality(keep) |-> s[nth(n)]]

\* expanded_terms: the query, the expansions of every key term the normalised query
\* contains and the terms of every contextual rule it matches
expanded_terms(query_text) ==
    LET qn == normalize(query_text)
        by_key == [k \in DOMAIN query_expansion_dict |->
                     IF Contains(qn, query_expansion_dict[k][1])
                     THEN query_expansion_dict[k][2] ELSE <<>>]
        by_rule == [k \in DOMAIN expansion_rules |->
                      IF InOrder(qn, expansion_rules[k][1])
                      THEN expansion_rules[k][2] ELSE <<>>]
    IN  Dedup(<<query_text>> \o Flatten(by_key) \o Flatten(by_rule))

\* ' '.join(terms)
RECURSIVE Join(_)
Join(terms) ==
    IF terms = <<>> THEN ""
    ELSE IF Len(terms) = 1 THEN terms[1]
    ELSE terms[1] \o " " \o Join(Tail(terms))

\* expanded_terms is a Python set of strings: the order in which join visits it is not
\* fixed by the program.  The orders explored are the rotations of the terms.
Rotation(terms, r) == SubSeq(terms, r + 1, Len(terms)) \o SubSeq(terms, 1, r)

expand_query(query_text, r) == Join(Rotation(expanded_terms(query_text), r))

(***************************************************************************)
(* search_documents: the intent flags of the fusion step, each a test of   *)
(* query.lower(), and the weights they select.                             *)
(***************************************************************************)

FusionFlags(ql) ==
    LET is_place_query == AnyIn(<<"donde", "lugar", "presentar", "entregar">>, ql)
    IN  [date |-> AnyIn(<<"cuando", "fecha", "fechas", "plazo", "cronograma">>, ql),
         place |-> is_place_query,
         lugar_pago |-> is_place_query
                        /\ AnyIn(<<"pagar", "pago", "caja", "derechos", "tasa">>, ql),
         lugar_presentacion |-> is_place_query
                        /\ AnyIn(<<"presentar", "entregar", "expediente", "tramite">>, ql),
         restriction |-> /\ AnyIn(<<"se pueden", "se puede", "puedo", "permiten", "permite",
                                    "instituto", "restriccion", "prohibido">>, ql)
                         /\ ~Contains(ql, "matricula por excepcion")
                         /\ ~Contains(ql, "excepcion"),
         cost |-> AnyIn(<<"cuanto", "cuesta", "costo", "precio", "pago", "tasa", "tarifa",
                          "valor", "monto", "s/">>, ql),
         validation |-> AnyIn(<<"validar", "validacion", "finalizar", "terminar",
                                "obligatorio", "obligatoriamente", "constancia",
                                "al finalizar">>, ql),
         definition |-> AnyIn(<<"que es", "cual es", "que significa", "define", "definicion",
                                "concepto", "acto formal", "acredita la condicion">>, ql),
         consequence |-> AnyIn(<<"que ocurre", "que pasa", "que sucede",
                                 "dejan de matricularse", "mas de tres", "pierden">>, ql),
         credits |-> AnyIn(<<"creditos adicionales", "creditos extra", "cuantos creditos",
                             "sin cursos pendientes", "ningun curso pendiente">>, ql),
         contact |-> AnyIn(<<"que correo", "cual es el correo", "correo electronico",
                             "talleres extracurriculares", "talleres", "contactar",
                             "inscribirme">>, ql),
         exception_enrollment |-> AnyIn(<<"matricula por excepcion", "por excepcion",
                                          "faltan dos asignaturas", "llevarlas juntas",
                                          "llevar en paralelo">>, ql),
         authority |-> AnyIn(<<"quien establece", "quien programa", "quien define",
                               "consejo universitario", "que entidad", "que organo">>, ql),
         equivalence |-> AnyIn(<<"equivalente", "equivale", "es equivalente a",
                                 "abandono es equivalente", "conteo de matriculas">>, ql)]

\* the cascade with the cost row tested first
fusion_weights_cost_first(ff) ==
    IF ff.cost THEN <<20, 80>>
    ELSE IF ff.lugar_pago \/ ff.lugar_presentacion THEN <<5, 95>>
    ELSE IF ff.equivalence \/ ff.authority \/ ff.exception_enrollment THEN <<5, 95>>
    ELSE IF ff.contact \/ ff.credits \/ ff.consequence \/ ff.definition THEN <<5, 95>>
    ELSE IF ff.validation THEN <<10, 90>>
    ELSE IF ff.restriction THEN <<30, 70>>
    ELSE IF ff.date \/ ff.place THEN <<50, 50>>
    ELSE <<70, 30>>

\* <<semantic weight, keyword weight>> in percent
fusion_weights(ff) ==
    IF ff.lugar_pago \/ ff.lugar_presentacion THEN <<5, 95>>
    ELSE IF ff.equivalence \/ ff.authority \/ ff.exception_enrollment THEN <<5, 95>>
    ELSE IF ff.contact \/ ff.credits \/ ff.consequence \/ ff.definition THEN <<5, 95>>
    ELSE IF ff.validation THEN <<10, 90>>
    ELSE IF ff.cost THEN <<20, 80>>
    ELSE IF ff.restriction THEN <<30, 70>>
    ELSE IF ff.date \/ ff.place THEN <<50, 50>>
    ELSE <<70, 30>>

\* semantic * w_sem + keyword * w_kw, in ten-thousandths of a point
\* (semantic in hundredths, keyword in twentieths, weights in percent)
combined_score(sem, kw, w) ==
    sem * w[1] + 5 * kw * w[2]

\* the gate with both thresholds required
admitted_on_both(sem, kw) == sem > 20 /\ kw > Pts(50)

\* semantic_score > 0.2 or keyword_score > 50
admitted(sem, kw) == sem > 20 \/ kw > Pts(50)

\* an ascending sort reversed: descending, equal scores in reverse order
sort_by_score_reversed(s) ==
    LET rank(k) == 1 + Cardinality({j \in DOMAIN s :
                        \/ s[j].score > s[k].score
                        \/ (s[j].score = s[k].score /\ j > k)})
    IN  [n \in 1..Len(s) |-> s[CHOOSE k \in DOMAIN s : rank(k) = n]]

\* list.sort(key=score, reverse=True): descending, equal scores keep their order
sort_by_score(s) ==
    LET rank(k) == 1 + Cardinality({j \in DOMAIN s :
                        \/ s[j].score > s[k].score
                        \/ (s[j].score = s[k].score /\ j < k)})
    IN  [n \in 1..Len(s) |-> s[CHOOSE k \in DOMAIN s : rank(k) = n]]

\* the elements of a set of positions in the order a Python set of small integers
\* yields them: non-negative ones ascending, the pad position -1 after them
iteration_order(S) ==
    LET key(e) == IF e < 0 THEN Cardinality(S) + 1000000 ELSE e
        nth(n) == CHOOSE e \in S : Cardinality({f \in S : key(f) <= key(e)}) = n
    IN  [n \in 1..Cardinality(S) |-> nth(n)]

\* dict.get(k, 0)
Get(d, k) == IF k \in DOMAIN d THEN d[k] ELSE 0

\* index.search(embedding, k) on an index of the vectors `scores` (position -> score):
\* the k best positions, padded with position -1 when the index holds fewer than k
index_search(scores, k) ==
    LET ranked == sort_by_score([n \in 1..Len(scores) |-> [doc_idx |-> n - 1, score |-> scores[n]]])
        hits == {ranked[n].doc_idx : n \in 1..(IF k < Len(scores) THEN k ELSE Len(scores))}
    IN  [e \in hits \cup (IF k > Len(scores) THEN {-1} ELSE {}) |->
            IF e = -1 THEN -(10 ^ 9) ELSE scores[e + 1]]

\* phase 4 going through the positions of the semantic map alone
fusion_candidates_semantic_only(docs, sem_scores, kw_scores, w) ==
    LET order == iteration_order(DOMAIN sem_scores)
        entry(e) == [doc_idx |-> e,
                     score |-> combined_score(Get(sem_scores, e), Get(kw_scores, e), w),
                     semantic_score |-> Get(sem_scores, e),
                     keyword_score |-> Get(kw_scores, e)]
        kept == SelectSeq(order, LAMBDA e : admitted(Get(sem_scores, e), Get(kw_scores, e)))
    IN  [raised |-> \E n \in DOMAIN kept : kept[n] >= Len(docs),
         combined_results |-> [n \in DOMAIN kept |-> entry(kept[n])]]

\* phase 4 of search_documents: the candidates in iteration order, before the sort.
\* documents[doc_idx] raises IndexError for a position the collection does not have.
fusion_candidates(docs, sem_scores, kw_scores, w) ==
    LET order == iteration_order(DOMAIN sem_scores \cup DOMAIN kw_scores)
        entry(e) == [doc_idx |-> e,
                     score |-> combined_score(Get(sem_scores, e), Get(kw_scores, e), w),
                     semantic_score |-> Get(sem_scores, e),
                     keyword_score |-> Get(kw_scores, e)]
        kept == SelectSeq(order, LAMBDA e : admitted(Get(sem_scores, e), Get(kw_scores, e)))
    IN  [raised |-> \E n \in DOMAIN kept : kept[n] >= Len(docs),
         combined_results |-> [n \in DOMAIN kept |-> entry(kept[n])]]

\* the slice [:top_k - 1]
truncate_one_short(s, k) == SubSeq(s, 1, IF k - 1 < Len(s) THEN k - 1 ELSE Len(s))

\* combined_results[:top_k]
truncate(s, k) == SubSeq(s, 1, IF k < Len(s) THEN k ELSE Len(s))

(***************************************************************************)
(* The dataset the service loads, and the questions asked of it.           *)
(***************************************************************************)

Corpus ==
    <<[id_chunk |-> "CRO-001",
       content |-> "Artículo 11: El Consejo Universitario establece anualmente el calendario académico.",
       categoria_principal |-> "Cronograma"],
      [id_chunk |-> "CONV-018-PAGO-PROF-EXT",
       content |-> "Tasa por curso para profesionales.",
       tasa_soles |-> 176,
       modalidad_pago_relacionada |-> "Profesional - Universidad Particular",
       categoria_principal |-> "Convalidación"],
      [id_chunk |-> "CONV-015-PAGO-UNIV-NAC",
       content |-> "Tasa de convalidación por curso.",
       tasa_soles |-> 55,
       modalidad_pago_relacionada |-> "Ordinario - Universidad Nacional",
       categoria_principal |-> "Convalidación"],
      [id_chunk |-> "CONV-016-PAGO-UNIV-PART",
       content |-> "Tasa por curso.",
       tasa_soles |-> 105,
       modalidad_pago_relacionada |-> "Profesionales - Universidad Particular"],
      [id_chunk |-> "MEX-003-EGR2",
       content |-> "Matrícula por excepción: si faltan dos (2) asignaturas para egresar y una es prerrequisito, puede llevar las dos en paralelo.",
       sub_categoria |-> "Excepción"],
      [id_chunk |-> "MAT-VAL",
       content |-> "El estudiante debe validar su matrícula e imprimir la constancia.",
       keywords |-> <<"Validar", "constancia">>],
      [id_chunk |-> "PAG-001",
       content |-> "El pago se hace en un solo recibo por todas las asignaturas.",
       tasa_soles |-> 0,
       lugar_pago |-> "Caja UNSA"],
      [id_chunk |-> "CONV-RES",
       content |-> "No se convalidan cursos de institutos. Los expedientes se presentan del 17 al 28 de marzo en la escuela.",
       sub_categoria |-> "Restricciones",
       fecha_relevante |-> "17 al 28 de marzo",
       actividad_cronograma |-> "Presentación de expedientes",
       keywords |-> <<"expedientes", "institutos">>,
       categoria_principal |-> "Convalidación"],
      [id_chunk |-> "BIB-001",
       content |-> "Horario de la biblioteca central."],
      [id_chunk |-> "TAL-001",
       content |-> "Talleres extracurriculares: escribir a upacdr_talleres@unsa.edu.pe, Oficina de Promoción.",
       modalidad_pago_relacionada |-> ""],
      [id_chunk |-> "ABA-001",
       content |-> "El abandono es equivalente a desaprobación; quienes pierden la condición de estudiante deben volver a postular.",
       tasa_soles |-> 50],
      [id_chunk |-> "CRE-001",
       content |-> "Sin cursos pendientes el sistema otorga seis (6) créditos adicionales."]>>

\* questions put to keyword_search directly
Frags ==
    {"¿Quién establece el cronograma?",
     "¿Cuánto cuesta convalidar si soy profesional y el curso viene de universidad particular?",
     "¿Cuánto cuesta si soy profesional de universidad particular?",
     "cuanto cuesta la tasa ordinario de universidad nacional de otra",
     "puedo llevar las dos asignaturas juntas",
     "matrícula por excepción, me faltan dos asignaturas para egresar y una es prerrequisito de la otra",
     "¿Cuándo se presentan los expedientes?",
     "cuando se presentan los expedientes",
     "¿Se pueden convalidar cursos de institutos?",
     "¿Dónde puedo pagar en un solo recibo?",
     "donde se hace el pago",
     "cuanto es el pago",
     "cuanto es el pago en cuotas",
     "qué correo tienen los talleres",
     "cuántos créditos adicionales me otorga",
     "qué pasa si pierden la condición",
     "el abandono es equivalente",
     "¿Qué es el acto formal que acredita la condición?",
     "qué es la matrícula",
     "debe validar",
     "horario de la biblioteca",
     "requisitos y criterios",
     "costo de traslado",
     "cuanto cuesta para un profesional",
     "los expedientes se presentan",
     "Inscripción",
     "quien establece el calendario"}

Tails == {"puedo", "quien define", "fecha y lugar", "cuanto es"}

Queries == Frags \cup {a \o " " \o b : a \in Frags, b \in Tails}

\* questions put to search_documents
SearchQueries ==
    {"quien establece el calendario",
     "puedo llevar las dos asignaturas juntas",
     "¿Cuándo se presentan los expedientes?",
     "cuando se presentan los expedientes",
     "¿Se pueden convalidar cursos de institutos?",
     "donde se hace el pago",
     "cuanto es el pago",
     "qué correo tienen los talleres",
     "debe validar",
     "horario de la biblioteca"}

\* largest explicit top_k a caller passes
MaxTopK == 2

\* def search_documents(self, query, top_k=5)
default_top_k == 5

TopKs == (1..MaxTopK) \cup {default_top_k}

\* what the embedding model and the vector index make of a query: the similarity of
\* each indexed vector, in hundredths
SemProfiles(ntotal) ==
    {[n \in 1..ntotal |-> 95 - 7 * (n - 1)],
     [n \in 1..ntotal |-> 50],
     [n \in 1..ntotal |-> IF n % 4 = 0 THEN 21 ELSE IF n % 4 = 1 THEN 20 ELSE 0]}

(***************************************************************************)
(* The chat endpoint: the request serializer and the fixed answers.        *)
(***************************************************************************)

\* str.strip()
strip(t) ==
    LET keep == {i \in 1..Len(t) : ~IsSpace(At(t, i))}
    IN  IF keep = {} THEN ""
        ELSE SubSeq(t, CHOOSE i \in keep : \A j \in keep : i <= j,
                       CHOOSE i \in keep : \A j \in keep : j <= i)

\* question = serializers.CharField(max_length=1000)
max_length == 1000

\* a serializer that tests the body as it came, without trimming it
is_valid_untrimmed(data) == data # "" /\ Len(data) <= max_length

\* ChatRequestSerializer.is_valid(): the field is trimmed, must not be blank and
\* must not be longer than max_length
is_valid(data) == strip(data) # "" /\ Len(strip(data)) <= max_length

RECURSIVE Repeat(_, _)
Repeat(t, n) ==
    IF n = 0 THEN ""
    ELSE IF n = 1 THEN t
    ELSE Repeat(t, n \div 2) \o Repeat(t, n - n \div 2)

\* the bodies posted to the endpoint
ChatInputs ==
    {"", "   ", "  horario de la biblioteca ", "cuanto es el pago",
     "quien establece el calendario", Repeat("a", max_length + 1)}

NoRelevantInformation ==
    "No encontré información relevante para tu consulta. Por favor, reformula tu pregunta."

Apology ==
    "Lo siento, no puedo procesar tu consulta en este momento. Por favor, intenta más tarde."

(***************************************************************************)
(* The generation provider: the substitutions that clean its reply, the    *)
(* check of the dates in it, the context and the prompt.                   *)
(***************************************************************************)

\* the position after the longest run of characters with P that starts at position i
RunEnd(t, i, P(_)) ==
    LET stops == {j \in i..(Len(t) + 1) : j = Len(t) + 1 \/ ~P(At(t, j))}
    IN  CHOOSE j \in stops : \A n \in stops : j <= n

\* the scan of re.findall and re.sub: the leftmost matches that do not overlap, as
\* pairs of the first position and the position after the last; ends[i] is the
\* position after the match that starts at i, 0 when no match starts there
RECURSIVE Matches(_, _)
Matches(ends, from) ==
    LET starts == {i \in DOMAIN ends : i >= from /\ ends[i] # 0}
    IN  IF starts = {} THEN {}
        ELSE LET i == CHOOSE m \in starts : \A n \in starts : m <= n
             IN  {<<i, ends[i]>>} \cup Matches(ends, ends[i])

\* re.findall(pattern, t), as the set of the matched texts
re_findall(t, End(_, _)) ==
    {SubSeq(t, m[1], m[2] - 1) : m \in Matches([i \in 1..Len(t) |-> End(t, i)], 1)}

RECURSIVE Rebuild(_, _, _, _)
Rebuild(t, ends, from, repl) ==
    LET starts == {i \in DOMAIN ends : i >= from /\ ends[i] # 0}
    IN  IF starts = {} THEN SubSeq(t, from, Len(t))
        ELSE LET i == CHOOSE m \in starts : \A n \in starts : m <= n
             IN  SubSeq(t, from, i - 1) \o repl \o Rebuild(t, ends, ends[i], repl)

\* re.sub(pattern, repl, t)
re_sub(t, End(_, _), repl) == Rebuild(t, [i \in 1..Len(t) |-> End(t, i)], 1, repl)

\* re.sub(pattern, repl, t, flags=re.IGNORECASE) for a pattern written in lower case
re_sub_ignorecase(t, End(_, _), repl) ==
    LET folded == lower(t)
    IN  Rebuild(t, [i \in 1..Len(t) |-> End(folded, i)], 1, repl)

\* <think>.*?</think> with re.DOTALL
think_end(t, i) ==
    IF StartsAt(t, i, "<think>")
    THEN LET c == Find(t, "</think>", i + 7) IN IF c = 0 THEN 0 ELSE c + 8
    ELSE 0

\* <[^>]+>
tag_end(t, i) ==
    IF At(t, i) = "<"
    THEN LET c == Find(t, ">", i + 1) IN IF c >= i + 2 THEN c + 1 ELSE 0
    ELSE 0

IsStop(c) == c \in {",", ".", ":"}
NotStop(c) == ~IsStop(c)
IsCodeChar(c) == Len(c) = 1 /\ Contains("ABCDEFGHIJKLMNOPQRSTUVWXYZ0123456789-", c)

\* prefix \d+[^,.:]*,?\s*
reference_end(t, i, prefix) ==
    IF StartsAt(t, i, prefix)
    THEN LET d == i + Len(prefix)
             e == RunEnd(t, d, IsDigit)
             f == RunEnd(t, e, NotStop)
         IN  IF e = d THEN 0 ELSE RunEnd(t, IF At(t, f) = "," THEN f + 1 ELSE f, IsSpace)
    ELSE 0

\* el documento \d+[^,.:]*\s+(indica|dice|menciona|establece)\s+que\s*
told_end(t, i) ==
    IF StartsAt(t, i, "el documento ")
    THEN LET d == i + 13
             e == RunEnd(t, d, IsDigit)
             f == RunEnd(t, e, NotStop)
             que(p, v) == RunEnd(t, p + 1 + Len(v), IsSpace)
             verbs == {"indica", "dice", "menciona", "establece"}
             told(p, v) == /\ IsSpace(At(t, p))
                           /\ StartsAt(t, p + 1, v)
                           /\ que(p, v) > p + 1 + Len(v)
                           /\ StartsAt(t, que(p, v), "que")
             ps == {p \in e..(f - 1) : \E v \in verbs : told(p, v)}
         IN  IF e = d \/ ps = {} THEN 0
             ELSE LET p == CHOOSE m \in ps : \A n \in ps : n <= m
                      v == CHOOSE w \in verbs : told(p, w)
                  IN  RunEnd(t, que(p, v) + 3, IsSpace)
    ELSE 0

\* \[CODE-[A-Z0-9-]+\]
code_end(t, i, code) ==
    IF StartsAt(t, i, "[" \o code \o "-")
    THEN LET d == i + Len(code) + 2
             e == RunEnd(t, d, IsCodeChar)
         IN  IF e > d /\ At(t, e) = "]" THEN e + 1 ELSE 0
    ELSE 0

\* phrase,?\s*
phrase_end(t, i, phrase) ==
    IF StartsAt(t, i, phrase)
    THEN LET d == i + Len(phrase)
         IN  RunEnd(t, IF At(t, d) = "," THEN d + 1 ELSE d, IsSpace)
    ELSE 0

\* \s+
spaces_end(t, i) == IF IsSpace(At(t, i)) THEN RunEnd(t, i, IsSpace) ELSE 0

\* _clean_response(response)
_clean_response(text) ==
    LET r1 == re_sub_ignorecase(text, LAMBDA t, i : reference_end(t, i, "según el documento "), "")
        r2 == re_sub_ignorecase(r1, LAMBDA t, i : reference_end(t, i, "en el documento "), "")
        r3 == re_sub_ignorecase(r2, told_end, "")
        r4 == re_sub(r3, LAMBDA t, i : code_end(t, i, "CONV"), "")
        r5 == re_sub(r4, LAMBDA t, i : code_end(t, i, "MAT"), "")
        r6 == re_sub(r5, LAMBDA t, i : code_end(t, i, "RES"), "")
        r7 == re_sub_ignorecase(r6, LAMBDA t, i : phrase_end(t, i, "según el contexto proporcionado"), "")
        r8 == re_sub_ignorecase(r7, LAMBDA t, i : phrase_end(t, i, "basándome en la información proporcionada"), "")
        r9 == re_sub_ignorecase(r8, LAMBDA t, i : phrase_end(t, i, "de acuerdo al contexto"), "")
        r10 == re_sub_ignorecase(r9, LAMBDA t, i : phrase_end(t, i, "de acuerdo con el contexto"), "")
    IN  strip(re_sub(r10, spaces_end, " "))

\* the answer _generate_with_ollama makes of the 'response' field of a reply
clean_answer(text) ==
    _clean_response(re_sub(re_sub(strip(text), think_end, ""), tag_end, ""))

\* \d{1,2}\s+de\s+\w+
day_of_month_end(t, i) ==
    LET d == IF IsDigit(At(t, i + 1)) THEN i + 2 ELSE i + 1
        s == RunEnd(t, d, IsSpace)
        m == RunEnd(t, s + 2, IsSpace)
        w == RunEnd(t, m, IsWordChar)
    IN  IF IsDigit(At(t, i)) /\ s > d /\ StartsAt(t, s, "de") /\ m > s + 2 /\ w > m
        THEN w ELSE 0

\* del\s+\d{1,2}\s+al\s+\d{1,2}
day_range_end(t, i) ==
    LET a == RunEnd(t, i + 3, IsSpace)
        b == IF IsDigit(At(t, a + 1)) THEN a + 2 ELSE a + 1
        c == RunEnd(t, b, IsSpace)
        d == RunEnd(t, c + 2, IsSpace)
    IN  IF /\ StartsAt(t, i, "del") /\ a > i + 3 /\ IsDigit(At(t, a)) /\ c > b
           /\ StartsAt(t, c, "al") /\ d > c + 2 /\ IsDigit(At(t, d))
        THEN IF IsDigit(At(t, d + 1)) THEN d + 2 ELSE d + 1
        ELSE 0

\* the dates _validate_dates_in_response finds in a response
response_dates(text) ==
    LET folded == lower(text)
    IN  re_findall(folded, day_of_month_end) \cup re_findall(folded, day_range_end)

\* _validate_dates_in_response(response, context): no date of the response is
\* missing from the context
_validate_dates_in_response(text, context_text) ==
    LET context_lower == lower(context_text)
    IN  \A date \in response_dates(text) : Contains(context_lower, date)

\* _build_prompt: the text before the context
prompt_head ==
    "Eres un asistente especializado en normativas académicas de la Universidad Nacional de San Agustín (UNSA).\n" \o
    "\n" \o
    "CONTEXTO (múltiples documentos relacionados):\n"

\* _build_prompt: the text between the context and the question
prompt_question ==
    "\n" \o
    "\n" \o
    "PREGUNTA DEL ESTUDIANTE: "

\* _build_prompt: the text after the question, the instructions
prompt_instructions ==
    "\n" \o
    "\n" \o
    "INSTRUCCIONES CRÍTICAS:\n" \o
    "\n" \o
    "1. **LEE CUIDADOSAMENTE** cada documento del contexto - están numerados (DOCUMENTO 1, DOCUMENTO 2, etc.)\n" \o
    "\n" \o
    "2. **EXTRAE INFORMACIÓN ESPECÍFICA** según la pregunta:\n" \o
    "   - Si preguntan \"DÓNDE\": Busca en \" Lugar\" o en el contenido principal\n" \o
    "   - Si preguntan \"CUÁNDO/FECHAS\": Busca en \" FECHAS\" \n" \o
    "   - Si preguntan \"CUÁNTO/COSTO\": Busca en \" Costo\"\n" \o
    "\n" \o
    "3. **NO MEZCLES INFORMACIÓN** de diferentes documentos:\n" \o
    "   - Un documento sobre \"Presentación de expedientes\" NO es lo mismo que \"Pago\"\n" \o
    "   - Un documento sobre \"Lugar de pago\" NO es el lugar de presentación del expediente\n" \o
    "\n" \o
    "4. **PRIORIZA** el documento más relevante,el DOCUMENTO 1 es el MÁS RELEVANTE para esta pregunta.\n" \o
    "   - Si el DOCUMENTO 1 contiene la respuesta completa, ÚSALO y NO mezcles con otros documentos.\n" \o
    "   - Solo usa otros documentos si el DOCUMENTO 1 no tiene información suficiente.\n" \o
    "\n" \o
    "5. **FORMATO DE RESPUESTA**:\n" \o
    "   - Responde de forma directa y estructurada\n" \o
    "   - Si hay fechas, escríbelas como: \"Del **17 de marzo** al **28 de marzo**\"\n" \o
    "   - Si hay lugares, especifica claramente: \"en [lugar exacto]\"\n" \o
    "   - Si hay costos, menciónalos: \"S/ [monto]\"\n" \o
    "   - Brinda la información sin mencionar los documentos de donde la extraiste.\n" \o
    "\n" \o
    "6. **PROHIBIDO**:\n" \o
    "   - Inventar información que no esté en el contexto\n" \o
    "   - Mezclar información de documentos diferentes\n" \o
    "   - Usar plantillas como \"[día] de [mes]\"\n" \o
    "\n" \o
    "7. Si NO encuentras información específica en el contexto, di: \"No encontré información sobre [tema específico]\"\n" \o
    "\n" \o
    "RESPUESTA:"

\* str.replace(old, new)
replace(t, old, new) ==
    re_sub(t, LAMBDA u, i : IF StartsAt(u, i, old) THEN i + Len(old) ELSE 0, new)

\* "\n".join(lines)
RECURSIVE join_lines(_)
join_lines(lines) ==
    IF lines = <<>> THEN ""
    ELSE IF Len(lines) = 1 THEN lines[1]
    ELSE lines[1] \o "\n" \o join_lines(Tail(lines))

\* generate_response: the lines of document doc, the idx-th of the context; the
\* pictograph that opens a line of the source is left out, the blank after it kept
context_part(doc, idx) ==
    LET header == "DOCUMENTO " \o ToString(idx)
                  \o (IF HasText(doc, "id_chunk") THEN " [" \o doc.id_chunk \o "]" ELSE "")
                  \o (IF HasText(doc, "categoria_principal") THEN " - " \o doc.categoria_principal ELSE "")
                  \o (IF HasText(doc, "sub_categoria") THEN " > " \o doc.sub_categoria ELSE "")
        activity == IF HasText(doc, "actividad_cronograma")
                    THEN <<" Actividad: " \o doc.actividad_cronograma>> ELSE <<>>
        dates == IF HasText(doc, "fecha_relevante")
                 THEN <<" FECHAS: " \o doc.fecha_relevante>> ELSE <<>>
        place == IF HasText(doc, "lugar_pago")
                 THEN <<" Lugar de pago: " \o doc.lugar_pago>> ELSE <<>>
        fee == IF HasFee(doc) THEN <<" Costo: S/ " \o ToString(doc.tasa_soles)>> ELSE <<>>
        metadata == activity \o dates \o place \o fee
    IN  join_lines(<<header, Repeat("-", 50)>> \o metadata
                   \o (IF metadata # <<>> THEN <<"">> ELSE <<>>)
                   \o <<" Información: " \o doc.content>>)

RECURSIVE join_parts(_)
\* "\n\n".join(parts)
join_parts(parts) ==
    IF parts = <<>> THEN ""
    ELSE IF Len(parts) = 1 THEN parts[1]
    ELSE parts[1] \o "\n\n" \o join_parts(Tail(parts))

\* generate_response: the context of the documents docs
build_context(docs) ==
    "\n\n" \o Repeat("=", 70)
    \o join_parts(<<"">> \o [n \in DOMAIN docs |-> context_part(docs[n], n)])
    \o "\n\n" \o Repeat("=", 70)

\* _build_prompt(query, context)
_build_prompt(query_text, context_text) ==
    prompt_head \o context_text \o prompt_question \o query_text \o prompt_instructions

\* the marker _generate_with_ollama looks for in the prompt and what it puts in its
\* place after an answer with a date that the context does not have (the variation
\* selector after the warning sign of the source is left out)
marker == "INSTRUCCIONES CRÍTICAS:"
warning_text == "⚠ ADVERTENCIA: Tu respuesta anterior contenía fechas incorrectas. "
warning == warning_text \o marker

\* def _generate_with_ollama(self, prompt, context=None, max_retries=2)
default_max_retries == 2

\* a loop that goes on after an answer with a wrong date whatever the attempt
retries_left_always(a, m) == TRUE

\* a loop that returns an answer with a wrong date whatever the attempt
retries_left_never(a, m) == FALSE

\* attempt < max_retries - 1: another attempt follows attempt a of m
retries_left(a, m) == a < m - 1

\* attempt == max_retries - 1
last_attempt(a, m) == a = m - 1

\* largest max_retries a caller of _generate_with_ollama passes
MaxRetries == 2

\* the 'response' field of the replies of the generation model
ReplyTexts ==
    {"  El Consejo Universitario establece el calendario académico.\n",
     "<think>Busco las fechas.</think>Según el contexto proporcionado, los expedientes [CONV-RES] se presentan del 17 al 28 de marzo.",
     "La matrícula es el 5 de abril."}

\* what requests.post gives: a reply with a status, or an exception
OllamaReplies ==
    {[status |-> 200, response |-> text, raised |-> ""] : text \in ReplyTexts}
    \cup {[status |-> 500, response |-> "", raised |-> ""],
          [status |-> 0, response |-> "", raised |-> "Timeout"]}

\* clean_answer and lower on the texts of the model, computed once
cleaned == [text \in ReplyTexts |-> clean_answer(text)]

\* the contexts and questions _generate_with_ollama is called with on its own; ""
\* is a call without context
DirectContexts == {"", build_context(SubSeq(Corpus, 8, 8)), build_context(SubSeq(Corpus, 1, 1))}
DirectQueries == {"cuando se presentan los expedientes"}

(***************************************************************************)
(* The service.  index is <<>> for None and <<ntotal>> for a loaded index. *)
(***************************************************************************)

VARIABLES documents, index, pc, call, query, top_k, semantic_scores_dict,
          expanded_query, intents, keyword_scores, weights, combined_results, result,
          provider_calls, exception, request, answer, response, created, threads,
          prompt, context, max_retries, attempt, requests, ollama

vars == <<documents, index, pc, call, query, top_k, semantic_scores_dict,
          expanded_query, intents, keyword_scores, weights, combined_results, result,
          provider_calls, exception, request, answer, response, created, threads,
          prompt, context, max_retries, attempt, requests, ollama>>

\* _generate_with_ollama: its arguments, the loop counter, the requests it has sent
\* with the reply to each, and whether the port of Ollama answered
generation == <<prompt, context, max_retries, attempt, requests, ollama>>

no_generation ==
    /\ prompt = ""
    /\ context = ""
    /\ max_retries = 0
    /\ attempt = 0
    /\ requests = <<>>
    /\ ollama = <<>>

\* the request in progress at the endpoint: its body, the answer of get_answer, the
\* response, and the ChatMessage rows created while it was handled
endpoint == <<request, answer, response, created>>

\* threads holds the locals of the search_documents calls that run side by side
\* on several threads of the server; it is empty while calls come one at a time.

\* __init__: load_documents, then load_or_create_index.  An index file left by an
\* earlier dataset is read as it is, whatever number of vectors it holds; without a
\* file the index is built from the documents, and is None when there are none.
Init ==
    /\ documents \in {Corpus, <<>>}
    /\ index \in IF documents = <<>>
                 THEN {<<>>, <<1>>}
                 ELSE {<<Len(documents)>>, <<Len(documents) + 1>>, <<0>>}
    /\ pc = "idle"
    /\ call = ""
    /\ query = ""
    /\ top_k = 0
    /\ semantic_scores_dict = <<>>
    /\ expanded_query = ""
    /\ intents = <<>>
    /\ keyword_scores = <<>>
    /\ weights = <<>>
    /\ combined_results = <<>>
    /\ result = <<>>
    /\ provider_calls = {}
    /\ exception = ""
    /\ request = <<>>
    /\ answer = ""
    /\ response = <<>>
    /\ created = <<>>
    /\ no_generation
    /\ threads = <<>>

\* the guard of search_documents looking at the index alone
nothing_to_search_index_only == index = <<>>

\* if not self.index or not self.documents
nothing_to_search == index = <<>> \/ documents = <<>>

\* keyword_search(q, self.documents), called on its own
KeywordSearchCall(q) ==
    /\ pc = "idle"
    /\ pc' = "done"
    /\ call' = "keyword_search"
    /\ query' = q
    /\ intents' = IntentFlags(normalize(q))
    /\ keyword_scores' = keyword_search(q, documents)
    /\ UNCHANGED <<generation, threads, documents, index, top_k, semantic_scores_dict, expanded_query, weights,
                   combined_results, result, provider_calls, exception, endpoint>>

\* search_documents(q, k) up to the guard: without an index or without documents
\* the result is the empty list
SearchBegin(q, k) ==
    /\ pc = "idle"
    /\ call' = "search_documents"
    /\ query' = q
    /\ top_k' = k
    /\ IF nothing_to_search
       THEN pc' = "done" /\ result' = <<>>
       ELSE pc' = "vector" /\ UNCHANGED result
    /\ UNCHANGED <<generation, threads, documents, index, semantic_scores_dict, expanded_query, intents,
                   keyword_scores, weights, combined_results, provider_calls, exception,
                   endpoint>>

\* chat_message(request): an invalid body is answered 400; a valid one goes to
\* get_answer(question), which starts search_documents(question) with the default
\* top_k
ChatMessagePost(data) ==
    /\ pc = "idle"
    /\ request' = <<data>>
    /\ IF ~is_valid(data)
       THEN /\ pc' = "responded"
            /\ call' = "chat_message"
            /\ response' = [status |-> 400]
            /\ UNCHANGED <<query, top_k, result>>
       ELSE /\ call' = "search_documents"
            /\ query' = strip(data)
            /\ top_k' = default_top_k
            /\ IF nothing_to_search
               THEN pc' = "done" /\ result' = <<>>
               ELSE pc' = "vector" /\ UNCHANGED result
            /\ UNCHANGED response
    /\ UNCHANGED <<generation, threads, documents, index, semantic_scores_dict, expanded_query, intents,
                   keyword_scores, weights, combined_results, provider_calls, exception,
                   answer, created>>

\* phase 1 without HyDE: self.model.encode([query]), then
\* index.search(query_embedding, top_k * 4); either call can raise
VectorSearch ==
    /\ pc = "vector"
    /\ \/ /\ pc' = "keyword"
          /\ provider_calls' = provider_calls \cup {"embedding", "index"}
          /\ \E scores \in SemProfiles(index[1]) :
                semantic_scores_dict' = index_search(scores, top_k * 4)
          /\ UNCHANGED exception
       \/ /\ pc' = "raised"
          /\ \E failed \in {{"embedding"}, {"embedding", "index"}} :
                provider_calls' = provider_calls \cup failed
          /\ exception' = "RuntimeError"
          /\ UNCHANGED semantic_scores_dict
    /\ UNCHANGED <<generation, threads, documents, index, call, query, top_k, expanded_query, intents,
                   keyword_scores, weights, combined_results, result, endpoint>>

\* phase 2: expand_query, then keyword_search on the expanded query
ExpandAndKeywordSearch ==
    /\ pc = "keyword"
    /\ pc' = "fuse"
    /\ \E r \in 0..(Len(expanded_terms(query)) - 1) : \E text \in {expand_query(query, r)} :
          /\ expanded_query' = text
          /\ intents' = IntentFlags(normalize(text))
          /\ keyword_scores' = keyword_search(text, documents)
    /\ UNCHANGED <<generation, threads, documents, index, call, query, top_k, semantic_scores_dict, weights,
                   combined_results, result, provider_calls, exception, endpoint>>

\* phases 3 and 4: the weights, the admission of candidates, the sort, the cut
Fuse ==
    /\ pc = "fuse"
    /\ \E w \in {fusion_weights(FusionFlags(lower(query)))} :
       \E c \in {fusion_candidates(documents, semantic_scores_dict, keyword_scores, w)} :
          /\ weights' = w
          /\ IF c.raised
             THEN /\ pc' = "raised"
                  /\ exception' = "IndexError"
                  /\ combined_results' = <<>>
                  /\ result' = <<>>
             ELSE \E sorted \in {sort_by_score(c.combined_results)} :
                     /\ pc' = "done"
                     /\ combined_results' = sorted
                     /\ result' = truncate(sorted, top_k)
                     /\ UNCHANGED exception
    /\ UNCHANGED <<generation, threads, documents, index, call, query, top_k, semantic_scores_dict,
                   expanded_query, intents, keyword_scores, provider_calls, endpoint>>

\* get_answer after search_documents has returned: the fixed message for an empty
\* list, generate_response otherwise
GetAnswer ==
    /\ pc = "done"
    /\ request # <<>>
    /\ call' = "get_answer"
    /\ IF result = <<>>
       THEN pc' = "answered" /\ answer' = NoRelevantInformation
       ELSE pc' = "generate" /\ UNCHANGED answer
    /\ UNCHANGED <<generation, threads, documents, index, query, top_k, semantic_scores_dict, expanded_query,
                   intents, keyword_scores, weights, combined_results, result,
                   provider_calls, exception, request, response, created>>

\* whether __init__ gives the service the attribute hyde_temperature, which
\* _generate_hypothetical_document reads: no statement assigns it
has_hyde_temperature == FALSE

\* _generate_hypothetical_document(query) when the port of Ollama answers or not and
\* the server would give reply: the text returned and whether a request was sent.
\* Reading self.hyde_temperature for the body of the request raises AttributeError
\* inside the try block, before requests.post is called.
_generate_hypothetical_document(q, reachable, reply) ==
    IF ~reachable THEN [returned |-> q, sent |-> FALSE]
    ELSE IF ~has_hyde_temperature THEN [returned |-> q, sent |-> FALSE]
    ELSE IF reply.raised # "" \/ reply.status # 200 THEN [returned |-> q, sent |-> TRUE]
    ELSE LET hypothetical_doc == strip(reply.response)
         IN  [returned |-> IF hypothetical_doc # "" /\ Len(hypothetical_doc) > 50
                           THEN hypothetical_doc ELSE q,
              sent |-> TRUE]

\* _generate_hypothetical_document(q) called on its own
GenerateHypotheticalDocument(q) ==
    /\ pc = "idle"
    /\ pc' = "hyde_returned"
    /\ call' = "_generate_hypothetical_document"
    /\ query' = q
    /\ \E reachable \in BOOLEAN : \E reply \in OllamaReplies :
       \E out \in {_generate_hypothetical_document(q, reachable, reply)} :
          /\ ollama' = [reachable |-> reachable, reply |-> reply]
          /\ answer' = out.returned
          /\ requests' = IF out.sent THEN <<[reply |-> reply]>> ELSE <<>>
          /\ provider_calls' = IF out.sent THEN {"generation"} ELSE {}
    /\ UNCHANGED <<prompt, context, max_retries, attempt, threads, documents, index, top_k,
                   semantic_scores_dict, expanded_query, intents, keyword_scores, weights,
                   combined_results, result, exception, request, response, created>>

\* generate_response(question, relevant_docs): the context and the prompt of the
\* documents found, then _generate_with_ollama(prompt, context=context)
GenerateResponse ==
    /\ pc = "generate"
    /\ pc' = "ollama"
    /\ \E text \in {build_context([n \in DOMAIN result |-> documents[result[n].doc_idx + 1]])} :
          /\ context' = text
          /\ prompt' = _build_prompt(query, text)
    /\ max_retries' = default_max_retries
    /\ attempt' = 0
    /\ requests' = <<>>
    /\ UNCHANGED <<ollama, threads, documents, index, call, query, top_k, semantic_scores_dict,
                   expanded_query, intents, keyword_scores, weights, combined_results,
                   result, provider_calls, exception, endpoint>>

\* _generate_with_ollama(prompt, context, max_retries) called on its own
GenerateWithOllamaCall(q, text, m) ==
    /\ pc = "idle"
    /\ pc' = "ollama"
    /\ call' = "_generate_with_ollama"
    /\ query' = q
    /\ context' = text
    /\ prompt' = _build_prompt(q, text)
    /\ max_retries' = m
    /\ attempt' = 0
    /\ requests' = <<>>
    /\ UNCHANGED <<ollama, threads, documents, index, top_k, semantic_scores_dict,
                   expanded_query, intents, keyword_scores, weights, combined_results,
                   result, provider_calls, exception, endpoint>>

\* _ensure_ollama_running(): whether the port answers; _generate_with_ollama raises
\* when it does not
EnsureOllamaRunning ==
    /\ pc = "ollama"
    /\ \E reachable \in BOOLEAN :
          /\ ollama' = [reachable |-> reachable]
          /\ IF reachable
             THEN pc' = "loop" /\ UNCHANGED exception
             ELSE pc' = "gen_raised" /\ exception' = "Exception"
    /\ UNCHANGED <<prompt, context, max_retries, attempt, requests, threads, documents, index,
                   call, query, top_k, semantic_scores_dict, expanded_query, intents,
                   keyword_scores, weights, combined_results, result, provider_calls,
                   endpoint>>

\* one turn of the loop of _generate_with_ollama: the request, and what the reply
\* leads to.  The temperature is in hundredths.
OllamaAttempt ==
    /\ pc = "loop"
    /\ attempt < max_retries
    /\ provider_calls' = provider_calls \cup {"generation"}
    /\ \E reply \in OllamaReplies :
          /\ requests' = Append(requests, [warnings |-> Count(prompt, warning_text),
                                           temperature |-> IF attempt > 0 THEN 0 ELSE 10,
                                           reply |-> reply])
          /\ IF reply.status = 200
             THEN \E text \in {cleaned[reply.response]} :
                     /\ answer' = text
                     /\ UNCHANGED exception
                     /\ IF context # "" /\ _validate_dates_in_response(text, context)
                        THEN pc' = "gen_returned" /\ UNCHANGED <<prompt, attempt>>
                        ELSE IF context = ""
                        THEN pc' = "gen_returned" /\ UNCHANGED <<prompt, attempt>>
                        ELSE IF retries_left(attempt, max_retries)
                        THEN /\ prompt' = replace(prompt, marker, warning)
                             /\ attempt' = attempt + 1
                             /\ pc' = "loop"
                        ELSE pc' = "gen_returned" /\ UNCHANGED <<prompt, attempt>>
             ELSE /\ UNCHANGED <<answer, prompt>>
                  /\ IF last_attempt(attempt, max_retries)
                     THEN /\ pc' = "gen_raised"
                          /\ exception' = IF reply.raised # "" THEN reply.raised ELSE "Exception"
                          /\ UNCHANGED attempt
                     ELSE /\ pc' = "loop"
                          /\ attempt' = attempt + 1
                          /\ UNCHANGED exception
    /\ UNCHANGED <<context, max_retries, ollama, threads, documents, index, call, query, top_k,
                   semantic_scores_dict, expanded_query, intents, keyword_scores, weights,
                   combined_results, result, request, response, created>>

\* range(max_retries) is used up: the statement after the loop is next
LoopExit ==
    /\ pc = "loop"
    /\ attempt >= max_retries
    /\ pc' = "after_loop"
    /\ UNCHANGED <<generation, threads, documents, index, call, query, top_k,
                   semantic_scores_dict, expanded_query, intents, keyword_scores, weights,
                   combined_results, result, provider_calls, exception, endpoint>>

\* return answer, after the loop: the local answer is bound only if a reply with
\* status 200 came
ReturnAfterLoop ==
    /\ pc = "after_loop"
    /\ IF \E n \in DOMAIN requests : requests[n].reply.status = 200
       THEN pc' = "gen_returned" /\ UNCHANGED exception
       ELSE pc' = "gen_raised" /\ exception' = "UnboundLocalError"
    /\ UNCHANGED <<generation, threads, documents, index, call, query, top_k,
                   semantic_scores_dict, expanded_query, intents, keyword_scores, weights,
                   combined_results, result, provider_calls, endpoint>>

\* a generate_response without the except clause
generate_response_uncaught(raised, type, text) ==
    IF raised THEN [pc |-> "raised", answer |-> "", exception |-> type]
    ELSE [pc |-> "answered", answer |-> text, exception |-> ""]

\* what generate_response does with the end of _generate_with_ollama: it returns
\* the answer, or catches the exception and returns the apology
generate_response_outcome(raised, type, text) ==
    IF raised THEN [pc |-> "answered", answer |-> Apology, exception |-> ""]
    ELSE [pc |-> "answered", answer |-> text, exception |-> ""]

\* generate_response after _generate_with_ollama, and get_answer, which returns what
\* generate_response returned
GenerateResponseReturn ==
    /\ pc \in {"gen_returned", "gen_raised"}
    /\ request # <<>>
    /\ \E outcome \in {generate_response_outcome(pc = "gen_raised", exception, answer)} :
          /\ pc' = outcome.pc
          /\ answer' = outcome.answer
          /\ exception' = outcome.exception
    /\ UNCHANGED <<generation, threads, documents, index, call, query, top_k,
                   semantic_scores_dict, expanded_query, intents, keyword_scores, weights,
                   combined_results, result, provider_calls, request, response, created>>

\* a handler that answers 200 whether or not get_answer raised
chat_response_always_ok(raised, type, text) == [status |-> 200, answer |-> text]

\* str(e) of an exception that comes out of get_answer: the text of Python for a
\* list index that does not exist, and the text the vector provider gave
message(type) ==
    IF type = "IndexError" THEN "list index out of range" ELSE "the vector provider failed"

\* the Response of chat_message for a valid request
chat_response(raised, type, text) ==
    IF raised THEN [status |-> 500, error |-> message(type), type |-> type]
    ELSE [status |-> 200, answer |-> text]

\* a handler that stores nothing
create_nothing(rows, q, a) == rows

\* ChatMessage.objects.create(question=q, answer=a) on the rows of the table
create(rows, q, a) == Append(rows, [question |-> q, answer |-> a])

\* chat_message after get_answer: the answer is stored and sent with status 200; an
\* exception that came out of get_answer is answered with status 500
ChatRespond ==
    /\ pc \in {"answered", "raised"}
    /\ request # <<>>
    /\ pc' = "responded"
    /\ call' = "chat_message"
    /\ response' = chat_response(pc = "raised", exception, answer)
    /\ IF pc = "raised"
       THEN UNCHANGED created
       ELSE created' = create(created, query, answer)
    /\ UNCHANGED <<generation, threads, documents, index, query, top_k, semantic_scores_dict, expanded_query,
                   intents, keyword_scores, weights, combined_results, result,
                   provider_calls, exception, request, answer>>

\* the caller has the result, the exception or the response; the locals are gone
Return ==
    /\ \/ pc \in {"done", "raised", "gen_returned", "gen_raised", "hyde_returned"} /\ request = <<>>
       \/ pc = "responded"
    /\ pc' = "idle"
    /\ call' = ""
    /\ query' = ""
    /\ top_k' = 0
    /\ semantic_scores_dict' = <<>>
    /\ expanded_query' = ""
    /\ intents' = <<>>
    /\ keyword_scores' = <<>>
    /\ weights' = <<>>
    /\ combined_results' = <<>>
    /\ result' = <<>>
    /\ provider_calls' = {}
    /\ exception' = ""
    /\ request' = <<>>
    /\ answer' = ""
    /\ response' = <<>>
    /\ created' = <<>>
    /\ prompt' = ""
    /\ context' = ""
    /\ max_retries' = 0
    /\ attempt' = 0
    /\ requests' = <<>>
    /\ ollama' = <<>>
    /\ UNCHANGED <<threads, documents, index>>

Next ==
    \/ \E q \in Queries : KeywordSearchCall(q)
    \/ \E q \in SearchQueries : \E k \in TopKs : SearchBegin(q, k)
    \/ \E data \in ChatInputs : ChatMessagePost(data)
    \/ VectorSearch
    \/ ExpandAndKeywordSearch
    \/ Fuse
    \/ GetAnswer
    \/ GenerateResponse
    \/ \E q \in DirectQueries : \E text \in DirectContexts : \E m \in 0..MaxRetries :
          GenerateWithOllamaCall(q, text, m)
    \/ \E q \in DirectQueries : GenerateHypotheticalDocument(q)
    \/ EnsureOllamaRunning
    \/ OllamaAttempt
    \/ LoopExit
    \/ ReturnAfterLoop
    \/ GenerateResponseReturn
    \/ ChatRespond
    \/ Return

Spec == Init /\ [][Next]_vars

(***************************************************************************)
(* keyword_search on a collection that holds, for each branch with tiers,  *)
(* a document of the highest tier and documents of the tiers below it.     *)
(***************************************************************************)

TierCorpus ==
    <<[id_chunk |-> "CRO-001",
       content |-> "Artículo 11: El Consejo Universitario establece anualmente el calendario académico."],
      [id_chunk |-> "CRO-002",
       content |-> "El Consejo Universitario programará anualmente las fechas, según el artículo 11."],
      [id_chunk |-> "ABA-001",
       content |-> "El abandono es equivalente a desaprobación."],
      [id_chunk |-> "ABA-002",
       content |-> "Disposición final primera: el abandono cuenta en el conteo de matrículas ejecutadas y en la calificación final."],
      [id_chunk |-> "MEX-003-EGR2",
       content |-> "Matrícula por excepción: si faltan dos (2) asignaturas para egresar y una es prerrequisito, puede llevar las dos en paralelo."],
      [id_chunk |-> "MEX-004",
       content |-> "La matrícula por excepción para egresar permite llevar cursos simultáneamente."],
      [id_chunk |-> "TAL-001",
       content |-> "Talleres extracurriculares: escribir a upacdr_talleres@unsa.edu.pe, Oficina de Promoción."],
      [id_chunk |-> "TAL-002",
       content |-> "Para la inscripción al taller de danza puede contactar al correo upacdr@unsa.edu.pe."],
      [id_chunk |-> "CRE-001",
       content |-> "Sin cursos pendientes el sistema otorga seis (6) créditos adicionales."],
      [id_chunk |-> "CRE-002",
       content |-> "Créditos adicionales: para quienes no tengan ningún curso pendiente, sin cursos pendientes, el sistema considera automáticamente la matrícula."],
      [id_chunk |-> "BIB-001",
       content |-> "Horario de la biblioteca central."]>>

TierInit ==
    /\ documents = TierCorpus
    /\ index = <<Len(TierCorpus)>>
    /\ pc = "idle"
    /\ call = ""
    /\ query = ""
    /\ top_k = 0
    /\ semantic_scores_dict = <<>>
    /\ expanded_query = ""
    /\ intents = <<>>
    /\ keyword_scores = <<>>
    /\ weights = <<>>
    /\ combined_results = <<>>
    /\ result = <<>>
    /\ provider_calls = {}
    /\ exception = ""
    /\ request = <<>>
    /\ answer = ""
    /\ response = <<>>
    /\ created = <<>>
    /\ no_generation
    /\ threads = <<>>

TierNext ==
    \/ \E q \in Queries : KeywordSearchCall(q)
    \/ Return

TierSpec == TierInit /\ [][TierNext]_vars

(***************************************************************************)
(* search_documents on questions that hold keys of the expansion tables.   *)
(***************************************************************************)

ExpansionQueries ==
    {"cuanto cuesta para un profesional",
     "me falta un curso por egresar",
     "el abandono es equivalente",
     "horario de la biblioteca"}

ExpansionInit ==
    /\ documents = Corpus
    /\ index = <<Len(Corpus)>>
    /\ pc = "idle"
    /\ call = ""
    /\ query = ""
    /\ top_k = 0
    /\ semantic_scores_dict = <<>>
    /\ expanded_query = ""
    /\ intents = <<>>
    /\ keyword_scores = <<>>
    /\ weights = <<>>
    /\ combined_results = <<>>
    /\ result = <<>>
    /\ provider_calls = {}
    /\ exception = ""
    /\ request = <<>>
    /\ answer = ""
    /\ response = <<>>
    /\ created = <<>>
    /\ no_generation
    /\ threads = <<>>

ExpansionNext ==
    \/ \E q \in ExpansionQueries : SearchBegin(q, default_top_k)
    \/ VectorSearch
    \/ ExpandAndKeywordSearch
    \/ Fuse
    \/ Return

ExpansionSpec == ExpansionInit /\ [][ExpansionNext]_vars

(***************************************************************************)
(* search_documents called on several threads of one service.  A call      *)
(* keeps what it computes in the locals of its own stack frame; the        *)
(* service object gives it documents and index to read.                    *)
(***************************************************************************)

Threads == {1, 2}

\* questions the threads put to search_documents
ThreadQueries == {"quien establece el calendario", "cuanto es el pago"}

\* a frame that every call would share, as attributes of the service object do
frame_of_service(t) == 1

\* the stack frame of the call running on thread t
frame_of(t) == t

no_call == [pc |-> "idle", query |-> "", top_k |-> 0, scores |-> <<>>, r |-> 0]

no_locals == [semantic_scores_dict |-> <<>>, keyword_scores |-> <<>>,
              combined_results |-> <<>>, result |-> <<>>]

ConcurrentInit ==
    /\ documents = Corpus
    /\ index = <<Len(Corpus)>>
    /\ pc = "idle"
    /\ call = ""
    /\ query = ""
    /\ top_k = 0
    /\ semantic_scores_dict = <<>>
    /\ expanded_query = ""
    /\ intents = <<>>
    /\ keyword_scores = <<>>
    /\ weights = <<>>
    /\ combined_results = <<>>
    /\ result = <<>>
    /\ provider_calls = {}
    /\ exception = ""
    /\ request = <<>>
    /\ answer = ""
    /\ response = <<>>
    /\ created = <<>>
    /\ no_generation
    /\ threads = [calls |-> [t \in Threads |-> no_call],
                  frames |-> [t \in Threads |-> no_locals]]

sequential == <<pc, call, query, top_k, semantic_scores_dict, expanded_query, intents,
                keyword_scores, weights, combined_results, result, provider_calls,
                exception, request, answer, response, created>>

\* thread t enters search_documents(q) with the default top_k
ThreadBegin(t, q) ==
    /\ threads.calls[t].pc = "idle"
    /\ threads' = [threads EXCEPT
                     !.calls[t] = [no_call EXCEPT !.pc = IF nothing_to_search THEN "done" ELSE "vector",
                                                  !.query = q, !.top_k = default_top_k],
                     !.frames[frame_of(t)] = no_locals]
    /\ UNCHANGED <<documents, index, sequential, generation>>

\* phase 1 on thread t
ThreadVectorSearch(t) ==
    /\ threads.calls[t].pc = "vector"
    /\ \/ \E scores \in SemProfiles(index[1]) :
             threads' = [threads EXCEPT
                           !.calls[t].pc = "keyword",
                           !.calls[t].scores = scores,
                           !.frames[frame_of(t)].semantic_scores_dict =
                               index_search(scores, threads.calls[t].top_k * 4)]
       \/ threads' = [threads EXCEPT !.calls[t].pc = "raised"]
    /\ UNCHANGED <<documents, index, sequential, generation>>

\* phase 2 on thread t
ThreadKeywordSearch(t) ==
    /\ threads.calls[t].pc = "keyword"
    /\ \E r \in 0..(Len(expanded_terms(threads.calls[t].query)) - 1) :
          threads' = [threads EXCEPT
                        !.calls[t].pc = "fuse",
                        !.calls[t].r = r,
                        !.frames[frame_of(t)].keyword_scores =
                            keyword_search(expand_query(threads.calls[t].query, r), documents)]
    /\ UNCHANGED <<documents, index, sequential, generation>>

\* phases 3 and 4 on thread t
ThreadFuse(t) ==
    /\ threads.calls[t].pc = "fuse"
    /\ \E locals \in {threads.frames[frame_of(t)]} :
       \E c \in {fusion_candidates(documents, locals.semantic_scores_dict, locals.keyword_scores,
                                   fusion_weights(FusionFlags(lower(threads.calls[t].query))))} :
          IF c.raised
          THEN threads' = [threads EXCEPT !.calls[t].pc = "raised"]
          ELSE \E sorted \in {sort_by_score(c.combined_results)} :
                  threads' = [threads EXCEPT
                                !.calls[t].pc = "done",
                                !.frames[frame_of(t)].combined_results = sorted,
                                !.frames[frame_of(t)].result =
                                    truncate(sorted, threads.calls[t].top_k)]
    /\ UNCHANGED <<documents, index, sequential, generation>>

\* the call on thread t has returned or raised and its frame is gone
ThreadReturn(t) ==
    /\ threads.calls[t].pc \in {"done", "raised"}
    /\ threads' = [threads EXCEPT !.calls[t] = no_call, !.frames[frame_of(t)] = no_locals]
    /\ UNCHANGED <<documents, index, sequential, generation>>

ConcurrentNext ==
    \/ \E t \in Threads : \E q \in ThreadQueries : ThreadBegin(t, q)
    \/ \E t \in Threads : ThreadVectorSearch(t)
    \/ \E t \in Threads : ThreadKeywordSearch(t)
    \/ \E t \in Threads : ThreadFuse(t)
    \/ \E t \in Threads : ThreadReturn(t)

ConcurrentSpec == ConcurrentInit /\ [][ConcurrentNext]_vars

\* search_documents(q, k) run from start to end with nothing beside it, given the
\* similarities the index returns and the order in which expand_query joins its terms
search_alone(docs, q, k, scores, r) ==
    LET sem == index_search(scores, k * 4)
        kw == keyword_search(expand_query(q, r), docs)
        c == fusion_candidates(docs, sem, kw, fusion_weights(FusionFlags(lower(q))))
    IN  IF c.raised THEN [raised |-> TRUE, result |-> <<>>]
        ELSE [raised |-> FALSE, result |-> truncate(sort_by_score(c.combined_results), k)]

(***************************************************************************)
(* Properties of keyword_search.                                           *)
(***************************************************************************)

\* keyword_search has run and its scores are at hand
Scored ==
    \/ call = "keyword_search" /\ pc = "done"
    \/ call = "search_documents" /\ pc = "fuse"

\* the text keyword_search was given
scored_text == IF call = "keyword_search" THEN query ELSE expanded_query

SpecializedIntents ==
    <<"authority", "equivalence", "exception_enrollment", "contact", "credits",
      "consequence", "definition", "validation", "cost">>

\* the first active intent in the fixed order, "general" when none is active
first_active_intent(f) ==
    LET active == {n \in DOMAIN SpecializedIntents : f[SpecializedIntents[n]]}
    IN  IF active = {} THEN "general"
        ELSE SpecializedIntents[CHOOSE n \in active : \A m \in active : n <= m]

\* the score of one scoring path alone
path_score(path, qn, f, doc, cn) ==
    CASE path = "authority" -> authority_score(cn)
      [] path = "equivalence" -> equivalence_score(cn)
      [] path = "exception_enrollment" -> exception_score(cn)
      [] path = "contact" -> contact_score(cn)
      [] path = "credits" -> credits_score(cn)
      [] path = "consequence" -> consequence_score(cn)
      [] path = "definition" -> definition_score(qn, cn)
      [] path = "validation" -> validation_score(cn)
      [] path = "cost" -> cost_score(qn, f, doc, cn)
      [] OTHER -> general_score(qn, f, doc, cn)

AuthorityValues == {Pts(4000), Pts(3500), Pts(2900), Pts(1000), Pts(20)}

\* C1: every document's score is the score of exactly one path, that of the first
\* active intent in the order authority, equivalence, exception-enrollment, contact,
\* credits, consequence, definition, validation, cost, with nothing of the general
\* scorer or its bonuses added; when authority and restriction both fire every score
\* is one of the authority values 4000, 3500, 2900, 1000, 20.
C1_FirstActiveIntentScores ==
    Scored =>
        \A qn \in {normalize(scored_text)} : \A path \in {first_active_intent(intents)} :
        \A i \in DOMAIN keyword_scores :
        \A doc \in {documents[i + 1]} : \A cn \in {normalize(doc.content)} :
            /\ keyword_scores[i] = path_score(path, qn, intents, doc, cn)
            /\ intents.authority /\ restriction_trigger_kw(qn) => keyword_scores[i] \in AuthorityValues

\* C1 witness: authority and restriction fire together on the loaded dataset and the
\* article on the council gets the top authority value
C1_Witness ==
    /\ Scored
    /\ documents = Corpus
    /\ intents.authority
    /\ intents.restriction
    /\ keyword_scores[0] = Pts(4000)
    /\ \E i \in DOMAIN keyword_scores : keyword_scores[i] = Pts(20)

ScenarioQuery ==
    "¿Cuánto cuesta convalidar si soy profesional y el curso viene de universidad particular?"

\* C2: for the scenario question put to keyword_search, a document with a fee of 176
\* and modality "Profesional - Universidad Particular" scores at least 1800, and a
\* document with a fee and modality "Ordinario - Universidad Nacional" scores at most
\* 0.05 times the base score of 1000.
C2_ScenarioScores ==
    call = "keyword_search" /\ pc = "done" /\ query = ScenarioQuery =>
        \A i \in DOMAIN keyword_scores : \A doc \in {documents[i + 1]} :
            HasFee(doc) /\ HasText(doc, "modalidad_pago_relacionada") =>
                /\ doc.tasa_soles = 176
                   /\ doc.modalidad_pago_relacionada = "Profesional - Universidad Particular"
                   => keyword_scores[i] >= Pts(1800)
                /\ doc.modalidad_pago_relacionada = "Ordinario - Universidad Nacional"
                   => keyword_scores[i] <= Pts(1000) \div 20

\* C3: whenever the exception-enrollment intent is active the restriction intent is
\* inactive, whatever restriction trigger words the query holds.
C3_ExceptionSuppressesRestriction ==
    Scored => (intents.exception_enrollment => ~intents.restriction)

\* the content names none of the payment words of the generic cost sub-branch
no_payment_word(doc) ==
    \A cn \in {normalize(doc.content)} :
        ~AnyIn(<<"recibo", "pago", "un solo", "todas las asignaturas">>, cn)

\* C9 as amended: in a specialised branch every score is above 0 except, in the cost
\* branch without a payment-procedure phrase, that of a document without a fee in
\* the amount sub-branch and that of a document without a fee and without a payment
\* word in the generic sub-branch; these score exactly 0.
C9_ZeroOnlyWithoutFee ==
    Scored =>
        \A path \in {first_active_intent(intents)} : path # "general" =>
        \A i \in DOMAIN keyword_scores : \A doc \in {documents[i + 1]} :
            /\ keyword_scores[i] >= 0
            /\ keyword_scores[i] = 0
                  <=> /\ path = "cost"
                      /\ ~intents.payment_procedure
                      /\ ~HasFee(doc)
                      /\ (intents.amount \/ no_payment_word(doc))

\* C9 witness: the generic cost sub-branch scores a document without a fee and
\* without a payment word 0 and a document with a payment word above 0
C9_Witness ==
    /\ Scored
    /\ documents = Corpus
    /\ first_active_intent(intents) = "cost"
    /\ ~intents.payment_procedure
    /\ ~intents.amount
    /\ \E i \in DOMAIN keyword_scores : keyword_scores[i] = 0
    /\ \E i \in DOMAIN keyword_scores :
          ~HasFee(documents[i + 1]) /\ keyword_scores[i] = Pts(1500)

\* C9: in a specialised branch every score is above 0 except that of a document
\* without a fee in the cost-amount sub-branch.
C9_ZeroOnlyInAmountSubBranch ==
    Scored =>
        \A path \in {first_active_intent(intents)} : path # "general" =>
        \A i \in DOMAIN keyword_scores :
            keyword_scores[i] = 0
                => /\ path = "cost"
                   /\ ~intents.payment_procedure
                   /\ intents.amount
                   /\ ~HasFee(documents[i + 1])

ProcedureValues == {Pts(5)} \cup {Pts(2000 + c * 100) : c \in 1..6}

\* C10: when cost is the first active intent every document of the query is scored
\* by one sub-branch: payment-procedure if a procedure phrase is present, else amount
\* if an amount phrase is present, else generic; with both a procedure and an amount
\* phrase the modality and provenance matching is never applied.
C10_OneCostSubBranch ==
    Scored =>
        \A path \in {first_active_intent(intents)} : path = "cost" =>
        \A qn \in {normalize(scored_text)} :
        \A procedure \in {payment_procedure_question(qn)} : \A amount \in {amount_question(qn)} :
        \A i \in DOMAIN keyword_scores :
        \A doc \in {documents[i + 1]} : \A cn \in {normalize(doc.content)} :
            /\ procedure => keyword_scores[i] = payment_procedure_score(cn)
            /\ ~procedure /\ amount => keyword_scores[i] = amount_score(qn, doc)
            /\ ~procedure /\ ~amount => keyword_scores[i] = generic_cost_score(doc, cn)
            /\ procedure /\ amount => keyword_scores[i] \in ProcedureValues

\* C10 witness: a procedure phrase and an amount phrase together; the fee document
\* with a modality gets the floor of the procedure sub-branch
C10_Witness ==
    /\ Scored
    /\ documents = Corpus
    /\ first_active_intent(intents) = "cost"
    /\ intents.payment_procedure
    /\ intents.amount
    /\ keyword_scores[1] = Pts(5)
    /\ keyword_scores[6] > Pts(2000)

(***************************************************************************)
(* Properties of search_documents.                                         *)
(***************************************************************************)

\* search_documents has fused the scores and returned its list
Fused == call = "search_documents" /\ pc = "done" /\ weights # <<>>

\* the set of active intents the classifier of keyword_search finds in a query
intent_set(q) == IntentFlags(normalize(q))

\* C4: two queries with the same set of active intents in the classifier of
\* keyword_search are fused with the same weight pair.
C4_WeightsFollowIntentSet ==
    Fused =>
        \A here \in {intent_set(query)} : \A other \in SearchQueries :
            intent_set(other) = here => fusion_weights(FusionFlags(lower(other))) = weights

\* the weight table of the fusion step, row by row
weight_table(ff) ==
    CASE ff.lugar_pago \/ ff.lugar_presentacion -> <<5, 95>>
      [] ~(ff.lugar_pago \/ ff.lugar_presentacion)
         /\ (ff.equivalence \/ ff.authority \/ ff.exception_enrollment) -> <<5, 95>>
      [] ~(ff.lugar_pago \/ ff.lugar_presentacion)
         /\ ~(ff.equivalence \/ ff.authority \/ ff.exception_enrollment)
         /\ (ff.contact \/ ff.credits \/ ff.consequence \/ ff.definition) -> <<5, 95>>
      [] OTHER ->
           CASE ff.validation -> <<10, 90>>
             [] ~ff.validation /\ ff.cost -> <<20, 80>>
             [] ~ff.validation /\ ~ff.cost /\ ff.restriction -> <<30, 70>>
             [] ~ff.validation /\ ~ff.cost /\ ~ff.restriction /\ (ff.date \/ ff.place)
                  -> <<50, 50>>
             [] OTHER -> <<70, 30>>

\* C5: one weight pair per call, chosen by the first row that holds of place-payment
\* or place-presentation (5, 95), equivalence, authority or exception-enrollment
\* (5, 95), contact, credits, consequence or definition (5, 95), validation (10, 90),
\* cost (20, 80), restriction (30, 70), date or place (50, 50), none (70, 30); every
\* combined score is semantic * w_sem + keyword * w_kw and the weights sum to 1.
C5_WeightTable ==
    Fused =>
        /\ \A ff \in {FusionFlags(lower(query))} : weights = weight_table(ff)
        /\ weights[1] + weights[2] = 100
        /\ \A n \in DOMAIN combined_results : \A c \in {combined_results[n]} :
              /\ c.semantic_score = Get(semantic_scores_dict, c.doc_idx)
              /\ c.keyword_score = Get(keyword_scores, c.doc_idx)
              /\ c.score = c.semantic_score * weights[1] + 5 * c.keyword_score * weights[2]

\* C5 witness: a question of place-payment, cost and place at once is fused with the
\* weights of the first row and has candidates
C5_Witness ==
    /\ Fused
    /\ FusionFlags(lower(query)).lugar_pago
    /\ FusionFlags(lower(query)).cost
    /\ weights = <<5, 95>>
    /\ Len(combined_results) > 1

candidate_positions == {combined_results[n].doc_idx : n \in DOMAIN combined_results}

\* C6: a document is a candidate exactly when its semantic score is above 0.2 or its
\* keyword score is above 50, so also when its keyword score is above 50 and its
\* semantic score is 0 or the vector provider did not return it.
C6_AdmissionGate ==
    Fused =>
        /\ \A i \in 0..(Len(documents) - 1) :
              i \in candidate_positions
                  <=> (Get(semantic_scores_dict, i) > 20 \/ keyword_scores[i] > Pts(50))
        /\ candidate_positions \subseteq 0..(Len(documents) - 1)

\* C6 witness: one candidate the vector provider did not return and one it returned
\* with a semantic score of 0, both admitted on the keyword score, and a document
\* with a semantic score of exactly 0.2 left out
C6_Witness ==
    /\ Fused
    /\ \E i \in candidate_positions : i \notin DOMAIN semantic_scores_dict
    /\ \E i \in candidate_positions :
          i \in DOMAIN semantic_scores_dict /\ semantic_scores_dict[i] = 0
    /\ \E i \in DOMAIN semantic_scores_dict :
          semantic_scores_dict[i] = 20 /\ i \notin candidate_positions

\* the documents that pass the admission gate
admitted_positions ==
    {i \in 0..(Len(documents) - 1) :
        Get(semantic_scores_dict, i) > 20 \/ keyword_scores[i] > Pts(50)}

score_of(i) == combined_score(Get(semantic_scores_dict, i), keyword_scores[i], weights)

Min(a, b) == IF a < b THEN a ELSE b

\* C7: the returned list has min(top_k, admitted candidates) entries, in
\* non-increasing order of combined score, and no admitted candidate left out has a
\* combined score above a returned one.
C7_TopK ==
    Fused =>
        \A adm \in {admitted_positions} :
            /\ Len(result) = Min(top_k, Cardinality(adm))
            /\ \A m, n \in DOMAIN result : m < n => result[m].score >= result[n].score
            /\ \A n \in DOMAIN result :
                  result[n].doc_idx \in adm /\ result[n].score = score_of(result[n].doc_idx)
            /\ \A i \in adm \ {result[n].doc_idx : n \in DOMAIN result} :
                  \A n \in DOMAIN result : score_of(i) <= result[n].score

\* C7 witness: more candidates than top_k, the list cut to top_k with scores that
\* differ, and in another shape fewer candidates than top_k
C7_Witness ==
    /\ Fused
    /\ \/ /\ Cardinality(admitted_positions) > top_k
          /\ Len(result) = top_k
          /\ top_k > 1
          /\ result[1].score > result[top_k].score
       \/ /\ Cardinality(admitted_positions) < top_k
          /\ Len(result) > 1

\* i comes before j in the order of the fusion step
before(i, j) == score_of(i) > score_of(j) \/ (score_of(i) = score_of(j) /\ i < j)

\* C8: the returned list is fixed by the score mappings: the n-th entry is the
\* admitted document with n - 1 admitted documents before it, where a higher
\* combined score comes first and equal scores go by document position.
C8_StableOrder ==
    Fused =>
        \A adm \in {admitted_positions} : \A n \in DOMAIN result :
            Cardinality({j \in adm : before(j, result[n].doc_idx)}) = n - 1

\* C8 witness: two neighbours of the returned list have the same combined score
C8_Witness ==
    /\ Fused
    /\ \E n \in DOMAIN result :
          /\ n + 1 \in DOMAIN result
          /\ result[n].score = result[n + 1].score
          /\ result[n].doc_idx < result[n + 1].doc_idx

(***************************************************************************)
(* Properties of the amount sub-branch of the cost branch.                 *)
(***************************************************************************)

\* keyword_search scored the documents in the amount sub-branch of the cost branch
InAmountSubBranch ==
    /\ intents # <<>>
    /\ first_active_intent(intents) = "cost"
    /\ ~intents.payment_procedure
    /\ intents.amount

\* C11: in the cost-amount sub-branch a document whose fee is missing or empty
\* scores exactly 0, whatever its content and modality attribute are, and the call
\* does not raise; such a document is in the result of search_documents only when
\* its semantic score is above 0.2.
C11_MissingFeeScoresZero ==
    /\ Scored /\ InAmountSubBranch =>
          \A i \in 0..(Len(documents) - 1) :
              ~HasFee(documents[i + 1]) => i \in DOMAIN keyword_scores /\ keyword_scores[i] = 0
    /\ Fused /\ InAmountSubBranch =>
          \A i \in candidate_positions :
              ~HasFee(documents[i + 1]) => Get(semantic_scores_dict, i) > 20

\* C11 witness: search_documents returns a document without a fee that the amount
\* sub-branch scored 0, next to a document with a fee, and leaves out another
\* document without a fee; one of the documents scored 0 has a payment word in its
\* content and one has a modality attribute
C11_Witness ==
    /\ Fused /\ InAmountSubBranch
    /\ \E n \in DOMAIN result :
          ~HasFee(documents[result[n].doc_idx + 1]) /\ result[n].keyword_score = 0
    /\ \E n \in DOMAIN result : HasFee(documents[result[n].doc_idx + 1])
    /\ \E i \in DOMAIN keyword_scores :
          ~HasFee(documents[i + 1]) /\ i \notin candidate_positions
    /\ \E i \in DOMAIN keyword_scores :
          /\ ~HasFee(documents[i + 1]) /\ ~no_payment_word(documents[i + 1])
          /\ keyword_scores[i] = 0
    /\ \E i \in DOMAIN keyword_scores :
          /\ ~HasFee(documents[i + 1])
          /\ "modalidad_pago_relacionada" \in DOMAIN documents[i + 1]
          /\ keyword_scores[i] = 0

\* the modalities a query names, by the word the query uses
ModalityWords == {"ordinario", "profesional", "ceprunsa", "traslado"}

named_modalities(qn) == {w \in ModalityWords : Contains(qn, w)}

\* a document of the amount sub-branch that can be penalised: a fee and a modality
priced_with_modality(doc) == HasFee(doc) /\ HasText(doc, "modalidad_pago_relacionada")

\* the modality attribute has none of the modalities the query names
modality_mismatch(qn, doc) ==
    \A attr \in {normalize(doc.modalidad_pago_relacionada)} :
        /\ named_modalities(qn) # {}
        /\ \A w \in named_modalities(qn) : ~Contains(attr, w)

\* the modality attribute does not have the provenance the query names
provenance_mismatch(qn, doc) ==
    \A attr \in {normalize(doc.modalidad_pago_relacionada)} :
        procedencias_en_query(qn) # {} /\ ~procedencia_match(qn, attr)

\* the modality attribute has every modality and the provenance the query names
matches_all_named(qn, doc) ==
    \A attr \in {normalize(doc.modalidad_pago_relacionada)} :
        /\ named_modalities(qn) # {} \/ procedencias_en_query(qn) # {}
        /\ \A w \in named_modalities(qn) : Contains(attr, w)
        /\ procedencias_en_query(qn) # {} => procedencia_match(qn, attr)

\* C12: in the cost-amount sub-branch, for a document with a fee and a modality
\* attribute: a modality named by the query and matched by none resets the score to
\* 10 whatever the provenance bonus; a provenance named and not matched multiplies
\* the score by 0.05; a penalised document scores above 0 and strictly below every
\* document that matches each modality and provenance the query names.
C12_PenalizedBelowMatching ==
    Scored /\ InAmountSubBranch =>
        \A qn \in {normalize(scored_text)} :
        \A i \in DOMAIN keyword_scores : \A doc \in {documents[i + 1]} :
            priced_with_modality(doc) =>
            \A mm \in {modality_mismatch(qn, doc)} : \A pm \in {provenance_mismatch(qn, doc)} :
                /\ mm /\ ~pm => keyword_scores[i] = Pts(10)
                /\ mm /\ pm => keyword_scores[i] = Pts(10) \div 20
                /\ ~mm /\ pm => keyword_scores[i] \in {Pts(1000) \div 20, Pts(1500) \div 20}
                /\ mm \/ pm =>
                      /\ keyword_scores[i] > 0
                      /\ \A j \in DOMAIN keyword_scores : \A other \in {documents[j + 1]} :
                            priced_with_modality(other) /\ matches_all_named(qn, other)
                                => keyword_scores[i] < keyword_scores[j]

(***************************************************************************)
(* Properties of the general scorer.                                       *)
(***************************************************************************)

\* the occurrences of the expanded words in a content, one pair for each
occurrences(words, cn) == UNION {{<<w, n>> : n \in 1..Count(cn, w)} : w \in words}

\* the base of the general scorer, in points
base_score(words, qn, cn) ==
    2 * Cardinality(occurrences(words, cn))
    + (IF Contains(cn, qn) THEN 30 ELSE 0)

\* the normalised contents of the dataset
content_normalized == [n \in DOMAIN Corpus |-> normalize(Corpus[n].content)]

\* C13: when no specialised intent is active the score of a document is its base,
\* 2 for each occurrence of each expanded query term in the normalised content and
\* 30 more exactly when the whole normalised query occurs in it, plus the bonuses,
\* each a fixed amount that is not negative; the score is never below the base, and
\* it is the base when no bonus applies.
C13_GeneralBaseScore ==
    Scored =>
        \A path \in {first_active_intent(intents)} : path = "general" =>
        \A qn \in {normalize(scored_text)} : \A words \in {expanded_words(qn)} :
        \A i \in DOMAIN keyword_scores :
        \A doc \in {documents[i + 1]} : \A cn \in {content_normalized[i + 1]} :
        \A base \in {Pts(base_score(words, qn, cn))} :
        \A restriction \in {IF intents.restriction THEN restriction_bonus(doc, cn) ELSE 0} :
        \A academic \in {IF intents.academic THEN academic_bonus(doc, cn) ELSE 0} :
        \A date \in {IF intents.date THEN date_bonus(doc, cn) ELSE 0} :
        \A place \in {IF intents.place THEN place_bonus(doc, cn) ELSE 0} :
        \A kws \in {keywords_bonus(qn, doc)} :
        \A categoria \in {categoria_bonus(words, doc)} :
            /\ doc = Corpus[i + 1]
            /\ keyword_scores[i] >= base
            /\ \A b \in {restriction, academic, date, place, kws, categoria} : b >= 0
            /\ keyword_scores[i]
                  = base + Pts(restriction + academic + date + place + kws + categoria)
            /\ ~(intents.restriction \/ intents.academic \/ intents.date \/ intents.place)
               /\ "keywords" \notin DOMAIN doc /\ "categoria_principal" \notin DOMAIN doc
                  => keyword_scores[i] = base

\* C13 witness: the general scorer gives one document the 30 of the whole query, one
\* document a term that occurs twice, one document a score above its base and one
\* document with an overlap exactly its base
C13_Witness ==
    /\ Scored
    /\ first_active_intent(intents) = "general"
    /\ \A qn \in {normalize(scored_text)} : \A words \in {expanded_words(qn)} :
          /\ \E i \in DOMAIN keyword_scores : Contains(content_normalized[i + 1], qn)
          /\ \E i \in DOMAIN keyword_scores : \E w \in words :
                Count(content_normalized[i + 1], w) >= 2
          /\ \E i \in DOMAIN keyword_scores :
                keyword_scores[i] > Pts(base_score(words, qn, content_normalized[i + 1]))
          /\ \E i \in DOMAIN keyword_scores :
                /\ keyword_scores[i] > 0
                /\ keyword_scores[i] = Pts(base_score(words, qn, content_normalized[i + 1]))

\* what the general scorer gives a document of a date question apart from the
\* date-pattern bonus, in points
score_without_date_pattern(words, qn, f, doc, cn) ==
    base_score(words, qn, cn)
    + (IF f.restriction THEN restriction_bonus(doc, cn) ELSE 0)
    + (IF f.academic THEN academic_bonus(doc, cn) ELSE 0)
    + (IF HasText(doc, "fecha_relevante") THEN 40 ELSE 0)
    + (IF HasText(doc, "actividad_cronograma") THEN 30 ELSE 0)
    + (IF f.place THEN place_bonus(doc, cn) ELSE 0)
    + keywords_bonus(qn, doc)
    + categoria_bonus(words, doc)

\* the content matches one of the three date expressions
date_in_content ==
    [n \in DOMAIN Corpus |->
        \A cn \in {content_normalized[n]} :
            MatchesDayOfMonth(cn) \/ MatchesDayRange(cn) \/ MatchesNumericDate(cn)]

\* C14: for a date question with no specialised intent, such as "¿Cuándo se
\* presentan los expedientes?", every document is scored by the general scorer, and
\* the date-pattern bonus, 50 and at most once, is added to a document exactly when
\* its normalised content matches one of the three date expressions.
C14_DatePatternBonus ==
    Scored /\ intents.date =>
        \A path \in {first_active_intent(intents)} : path = "general" =>
        \A qn \in {normalize(scored_text)} : \A words \in {expanded_words(qn)} :
        \A i \in DOMAIN keyword_scores :
        \A doc \in {documents[i + 1]} : \A cn \in {content_normalized[i + 1]} :
        \A rest \in {Pts(score_without_date_pattern(words, qn, intents, doc, cn))} :
            /\ doc = Corpus[i + 1]
            /\ keyword_scores[i] - rest \in {0, Pts(50)}
            /\ keyword_scores[i] - rest = Pts(50) <=> date_in_content[i + 1]

\* C14 witness: the question about the files; the document with "del 17 al 28 de
\* marzo" matches two of the expressions and has the bonus once, and a document
\* without a date has a score without it
C14_Witness ==
    /\ Scored
    /\ documents = Corpus
    /\ scored_text = "¿Cuándo se presentan los expedientes?"
    /\ intents.date
    /\ first_active_intent(intents) = "general"
    /\ \A cn \in {content_normalized[8]} : \A qn \in {normalize(scored_text)} :
          /\ MatchesDayOfMonth(cn) /\ MatchesDayRange(cn)
          /\ keyword_scores[7]
                = Pts(50 + score_without_date_pattern(expanded_words(qn), qn, intents,
                                                      documents[8], cn))
    /\ \E i \in DOMAIN keyword_scores : keyword_scores[i] > 0 /\ ~date_in_content[i + 1]

(***************************************************************************)
(* Properties of the service without data and of failing providers.        *)
(***************************************************************************)

\* C15: with an empty document collection or without an index, search_documents
\* returns the empty list, raises nothing and calls neither the embedding model nor
\* the index, and get_answer returns the fixed message that no relevant information
\* was found without calling the generation provider.
C15_NothingToSearch ==
    /\ documents = <<>> \/ index = <<>>
    /\ call \notin {"_generate_with_ollama", "_generate_hypothetical_document"}
    =>  /\ pc \notin {"vector", "keyword", "fuse", "raised", "generate", "ollama", "loop",
                      "after_loop", "gen_returned", "gen_raised"}
        /\ provider_calls = {}
        /\ exception = ""
        /\ call = "search_documents" /\ pc = "done" => result = <<>>
        /\ pc = "answered" => answer = NoRelevantInformation
        /\ pc = "responded" /\ is_valid(request[1]) =>
              response = [status |-> 200, answer |-> NoRelevantInformation]

\* C15 witness: an index file is there and the documents are not; get_answer has
\* the fixed message after the empty list of search_documents
C15_Witness ==
    /\ documents = <<>>
    /\ index # <<>>
    /\ pc = "answered"
    /\ result = <<>>
    /\ answer = NoRelevantInformation
    /\ provider_calls = {}

\* the vector search gave no document a semantic score
no_semantic_scores == \A i \in 0..(Len(documents) - 1) : i \notin DOMAIN semantic_scores_dict

\* C16: when the semantic map has no entry for any document, fusion takes every
\* semantic score as 0: the candidates are exactly the documents with a keyword
\* score above 50, in non-increasing order of keyword score, and the result is
\* their first top_k, whichever weight pair is selected.
C16_KeywordOnlyFusion ==
    Fused /\ no_semantic_scores =>
        /\ candidate_positions = {i \in 0..(Len(documents) - 1) : keyword_scores[i] > Pts(50)}
        /\ Len(combined_results) = Cardinality(candidate_positions)
        /\ \A n \in DOMAIN combined_results :
              /\ combined_results[n].semantic_score = 0
              /\ combined_results[n].keyword_score = keyword_scores[combined_results[n].doc_idx]
              /\ combined_results[n].score = 5 * combined_results[n].keyword_score * weights[2]
        /\ \A m, n \in DOMAIN combined_results :
              m < n => combined_results[m].keyword_score >= combined_results[n].keyword_score
        /\ result = SubSeq(combined_results, 1, Min(top_k, Len(combined_results)))

\* C16 witness: an index without vectors; more than top_k documents pass on their
\* keyword score, the first returned has a higher keyword score than the last, and
\* a document with a keyword score of 50 or less is left out
C16_Witness ==
    /\ Fused /\ no_semantic_scores
    /\ documents = Corpus
    /\ Len(combined_results) > top_k
    /\ Len(result) = top_k
    /\ result[1].keyword_score > result[top_k].keyword_score
    /\ \E i \in DOMAIN keyword_scores :
          keyword_scores[i] > 0 /\ keyword_scores[i] <= Pts(50)

\* C17: an exception of the embedding model or of the index search is caught neither
\* in search_documents nor in get_answer: after it no later phase runs, no result
\* and no answer are produced, and the chat endpoint answers with status 500 and
\* stores no ChatMessage.
C17_VectorFailurePropagates ==
    exception = "RuntimeError" =>
        /\ pc \in {"raised", "responded"}
        /\ "generation" \notin provider_calls
        /\ keyword_scores = <<>> /\ combined_results = <<>> /\ result = <<>>
        /\ answer = ""
        /\ created = <<>>
        /\ pc = "responded" =>
              response = [status |-> 500, error |-> message("RuntimeError"), type |-> "RuntimeError"]

\* C17 witness: the index search raised for a posted question and the endpoint has
\* answered 500
C17_Witness ==
    /\ exception = "RuntimeError"
    /\ provider_calls = {"embedding", "index"}
    /\ request # <<>>
    /\ pc = "responded"
    /\ response.status = 500
    /\ created = <<>>

\* the positions of documents the vector search returned; -1 marks a missing hit
returned_positions == {e \in DOMAIN semantic_scores_dict : e >= 0}

\* C18: every document position the vector provider returns exists in the document
\* collection; a position outside it is a fatal configuration error whatever the
\* query, so no search_documents call goes on or returns with such a position in its
\* semantic map.
C18_PositionsInCollection ==
    call = "search_documents" /\ pc \in {"keyword", "fuse", "done"} =>
        \A e \in returned_positions : e < Len(documents)

(***************************************************************************)
(* Properties of normalize and of the synonym expansion.                   *)
(***************************************************************************)

\* str.upper()
upper(t) == MapText(t, LowerChars, UpperChars)

\* t with the marks taken off its letters and the case kept
unmarked(t) == MapText(t, "áéíóúüñÁÉÍÓÚÜÑ", "aeiouunAEIOUUN")

\* t with a mark put on each of its vowels and on each n
marked(t) == MapText(t, "aeiounAEIOUN", "áéíóúñÁÉÍÓÚÑ")

\* texts that differ from t in letter case or in diacritics only
variants(t) ==
    {upper(t), unmarked(t), marked(t), upper(marked(t)), unmarked(lower(t))}

\* C19: normalize is idempotent, normalize(normalize(x)) = normalize(x), and
\* insensitive to diacritics and case: texts that differ only in letter case or in
\* diacritics, such as "Inscripción" and "inscripcion", have the same normal form.
C19_NormalizeIdempotent ==
    Scored =>
        /\ \A nx \in {normalize(scored_text)} : normalize(nx) = nx
        /\ \A nx \in {normalize(query)} :
              /\ normalize(nx) = nx
              /\ \A y \in variants(query) : normalize(y) = nx

\* C19 witness: keyword_search normalised "Inscripción"; the text has variants that
\* differ from it and from one another
C19_Witness ==
    /\ Scored
    /\ scored_text = "Inscripción"
    /\ normalize(scored_text) = "inscripcion"
    /\ {"inscripcion", "INSCRIPCIÓN", "Inscripcion"} \subseteq variants(scored_text)
    /\ normalize("inscripcion") = normalize(scored_text)
    /\ Cardinality(variants(scored_text)) = 5

\* the synonym lists a word is in
lists_of(w) == {k \in DOMAIN synonyms : \E n \in DOMAIN synonyms[k] : synonyms[k][n] = w}

\* C20: the synonym expansion of keyword_search keeps every query token; a token in
\* no synonym list adds nothing; a token in the list of an entry adds every synonym
\* of that entry; and the expansion is one level deep, so each added word is in a
\* list that holds a query token, and a word added is not expanded in turn.
C20_SynonymExpansion ==
    Scored =>
        \A qn \in {normalize(scored_text)} :
        \A tokens \in {split(qn)} : \A expanded \in {expanded_words(qn)} :
            /\ tokens \subseteq expanded
            /\ (\A t \in tokens : lists_of(t) = {}) => expanded = tokens
            /\ \A t \in tokens : \A k \in lists_of(t) : Range(synonyms[k]) \subseteq expanded
            /\ \A w \in expanded \ tokens : \E t \in tokens : lists_of(t) \cap lists_of(w) # {}

\* C20 witness: "requisitos y criterios": "y" is in no list, "requisitos" brings in
\* "expediente" and "condiciones", and "tramite", a synonym of "expediente" only, is
\* not brought in
C20_Witness ==
    /\ Scored
    /\ \A qn \in {normalize(scored_text)} : \A expanded \in {expanded_words(qn)} :
          /\ split(qn) = {"requisitos", "y", "criterios"}
          /\ lists_of("y") = {}
          /\ {"expediente", "documentos", "condiciones", "exigencias"} \subseteq expanded
          /\ "tramite" \notin expanded
          /\ lists_of("tramite") \cap lists_of("expediente") # {}

(***************************************************************************)
(* Properties of the chat endpoint.                                        *)
(***************************************************************************)

\* C21: an empty or whitespace-only question is answered with status 400, get_answer
\* is not called for it and no ChatMessage is stored; an accepted question reaches
\* the core with the surrounding whitespace removed.
C21_BlankQuestionRejected ==
    request # <<>> =>
        \A data \in {request[1]} :
            /\ strip(data) = "" =>
                  /\ pc = "responded"
                  /\ call = "chat_message"
                  /\ response = [status |-> 400]
                  /\ query = "" /\ answer = "" /\ provider_calls = {}
                  /\ created = <<>>
            /\ is_valid(data) /\ call = "search_documents" =>
                  /\ query = strip(data)
                  /\ At(query, 1) # " " /\ At(query, Len(query)) # " "

\* C21 witness: a body of three blanks has been answered 400
C21_Witness ==
    /\ request = <<"   ">>
    /\ pc = "responded"
    /\ response.status = 400
    /\ created = <<>>

\* C22: while search_documents calls run side by side on one service, the document
\* collection and the index handle stay what they were after loading, and a call
\* that has finished holds the result the same call gives when it runs alone.
C22_ConcurrentCallsAsAlone ==
    /\ documents = Corpus
    /\ index = <<Len(Corpus)>>
    /\ \A t \in Threads : \A c \in {threads.calls[t]} :
          c.pc = "done" =>
             \A alone \in {search_alone(Corpus, c.query, c.top_k, c.scores, c.r)} :
                ~alone.raised /\ threads.frames[frame_of(t)].result = alone.result

\* a call has finished while the call on the other thread, for another question, is
\* past its keyword phase
C22_Witness ==
    /\ threads.calls[1].pc = "done"
    /\ threads.calls[2].pc \in {"fuse", "done"}
    /\ threads.calls[1].query # threads.calls[2].query
    /\ threads.frames[1].result # <<>>
    /\ threads.frames[1].result # threads.frames[2].result

\* the perfect-match condition of a branch with tiers, on the normalised content
perfect_match(path, cn) ==
    CASE path = "authority" ->
            /\ Contains(cn, "consejo universitario")
            /\ Contains(cn, "calendario academico")
            /\ AnyIn(<<"establecera", "establece", "programa">>, cn)
      [] path = "equivalence" ->
            /\ Contains(cn, "abandono")
            /\ AnyIn(<<"equivalente", "equivale">>, cn)
            /\ \/ Contains(cn, "desaprobacion")
               \/ AnyIn(<<"conteo de matriculas", "matriculas ejecutadas">>, cn)
      [] path = "exception_enrollment" ->
            /\ AnyIn(<<"dos (2) asignaturas", "dos asignaturas", "falte solo dos">>, cn)
            /\ Contains(cn, "prerrequisito")
            /\ AnyIn(<<"en paralelo", "llevar las dos", "llevar los dos">>, cn)
      [] path = "contact" ->
            /\ Contains(cn, "talleres extracurriculares")
            /\ Contains(cn, "@unsa.edu.pe") \/ Contains(cn, "upacdr")
      [] path = "credits" ->
            /\ AnyIn(<<"seis (6)", "seis (06)", "6 creditos", "06 creditos">>, cn)
            /\ Contains(cn, "creditos adicionales")
            /\ AnyIn(<<"sin cursos pendientes", "ningun curso pendiente",
                       "no tengan ningun curso">>, cn)
      [] OTHER -> FALSE

TieredBranches == {"authority", "equivalence", "exception_enrollment", "contact", "credits"}

tier_content_normalized == [n \in DOMAIN TierCorpus |-> normalize(TierCorpus[n].content)]

\* C23: in a branch with a perfect-match tier, a document that meets the perfect-match
\* condition of the branch scores at least as high as every document that does not.
C23_PerfectTierOnTop ==
    Scored /\ documents = TierCorpus =>
        \A path \in {first_active_intent(intents)} : path \in TieredBranches =>
            \A i, j \in DOMAIN keyword_scores :
                /\ perfect_match(path, tier_content_normalized[i + 1])
                /\ ~perfect_match(path, tier_content_normalized[j + 1])
                => keyword_scores[i] >= keyword_scores[j]

\* the intents that are active in a record of intent flags
active_intents(f) == {n \in DOMAIN f : f[n]}

\* C24: the intents keyword_search derives from the expanded query that
\* search_documents hands it are the intents it derives from the raw query, and so
\* is the scoring branch.
C24_ExpansionKeepsIntents ==
    call = "search_documents" /\ pc = "fuse" =>
        \A raw \in {IntentFlags(normalize(query))} :
            /\ active_intents(intents) = active_intents(raw)
            /\ first_active_intent(intents) = first_active_intent(raw)

\* what search_documents returns for query q and top_k k when the index gives the
\* semantic scores sem and expand_query joins its terms from position r on
ranked_documents(docs, q, k, sem, r) ==
    LET kw == keyword_search(expand_query(q, r), docs)
        c == fusion_candidates(docs, sem, kw, fusion_weights(FusionFlags(lower(q))))
    IN  truncate(sort_by_score(c.combined_results), k)

\* C25: a query and the same query without diacritics and in lower case, with the
\* same semantic scores, get the same intents in the fusion step, the same weight
\* pair and the same ranked documents.
C25_DiacriticsAndCaseIgnored ==
    Fused =>
        \A plain \in {normalize(query)} :
            /\ FusionFlags(lower(plain)) = FusionFlags(lower(query))
            /\ fusion_weights(FusionFlags(lower(plain))) = weights
            /\ \E r \in 0..(Len(expanded_terms(plain)) - 1) :
                  ranked_documents(documents, plain, top_k, semantic_scores_dict, r) = result

\* the last request _generate_with_ollama has sent
last_request == requests[Len(requests)]

\* C26: a call of _generate_with_ollama sends at most max_retries requests; when the
\* port of Ollama does not answer it raises and has sent none; and with max_retries
\* of 1 or more it never comes to the statement after the loop: it returns the
\* answer made of the reply to its last request, or it raises.
C26_AtMostMaxRetriesRequests ==
    /\ Len(requests) <= max_retries
    /\ ollama # <<>> =>
          IF ollama.reachable
          THEN max_retries >= 1 =>
                  /\ pc # "after_loop"
                  /\ pc = "gen_returned" =>
                        /\ requests # <<>>
                        /\ last_request.reply.status = 200
                        /\ answer = cleaned[last_request.reply.response]
                  /\ pc = "gen_raised" =>
                        /\ Len(requests) = max_retries
                        /\ last_request.reply.status # 200
                        /\ exception \in {"Exception", "Timeout"}
          ELSE /\ requests = <<>>
               /\ pc \notin {"loop", "after_loop", "gen_returned"}
               /\ pc = "gen_raised" => exception = "Exception"

\* C26 witness: a call with max_retries 2 has sent its second request and returned
C26_Witness ==
    /\ call = "_generate_with_ollama"
    /\ pc = "gen_returned"
    /\ max_retries = 2
    /\ Len(requests) = 2

\* the answer made of the reply to request n has a date that the context lacks
wrong_date(n) ==
    /\ requests[n].reply.status = 200
    /\ ~_validate_dates_in_response(cleaned[requests[n].reply.response], context)

\* C27: with a context, an answer with a date that the context lacks is returned
\* only when it is the answer of the last attempt; after such an answer on an
\* earlier attempt the loop goes on, and the request that follows carries the
\* warning in its prompt and temperature 0.0; an answer whose dates are all in the
\* context is returned at once, so no request follows it.
C27_WrongDateRetried ==
    context # "" /\ requests # <<>> /\ pc \in {"loop", "gen_returned", "gen_raised"} =>
        \A n \in DOMAIN requests :
            IF requests[n].reply.status # 200 THEN TRUE
            ELSE IF wrong_date(n)
            THEN /\ n = Len(requests) /\ pc = "gen_returned" =>
                       attempt = max_retries - 1 /\ n = max_retries
                 /\ n = Len(requests) /\ n < max_retries =>
                       pc = "loop" /\ attempt = n /\ Count(prompt, warning_text) = requests[n].warnings + 1
                 /\ n < Len(requests) =>
                       /\ requests[n + 1].warnings = requests[n].warnings + 1
                       /\ requests[n + 1].temperature = 0
            ELSE /\ n = Len(requests)
                 /\ pc = "gen_returned"
                 /\ answer = cleaned[requests[n].reply.response]

\* C27 witness: the first answer had a date that is not in the context, the second
\* request carried the warning and temperature 0.0, and its answer, with a wrong
\* date again, was returned
C27_Witness ==
    /\ context # ""
    /\ pc = "gen_returned"
    /\ Len(requests) = 2
    /\ max_retries = 2
    /\ wrong_date(1)
    /\ wrong_date(2)
    /\ requests[1].warnings = 0
    /\ requests[1].temperature = 10
    /\ requests[2].warnings = 1
    /\ requests[2].temperature = 0

\* the generation of the request has failed: the port of Ollama did not answer, or
\* the last attempt got no reply with status 200
generation_failed ==
    /\ ollama # <<>>
    /\ \/ ~ollama.reachable
       \/ Len(requests) = max_retries /\ last_request.reply.status # 200

\* C28: generate_response never raises.  After a failed attempt that is not the last
\* the loop goes on; when the last attempt fails or Ollama is not reachable,
\* get_answer returns the apology, and the endpoint answers 200 with it and stores it
\* as a ChatMessage.
C28_GenerationFailureApologised ==
    request # <<>> /\ ollama # <<>> =>
        /\ pc # "raised"
        /\ pc \in {"answered", "responded"} => exception = ""
        /\ pc = "loop" => ollama.reachable /\ attempt < max_retries
        /\ \A n \in DOMAIN requests :
              requests[n].reply.status # 200 /\ n < max_retries =>
                 \/ n < Len(requests)
                 \/ pc = "loop" /\ attempt = n
        /\ generation_failed =>
              /\ pc \in {"gen_raised", "answered", "responded"}
              /\ pc = "answered" => answer = Apology
              /\ pc = "responded" =>
                    /\ response = [status |-> 200, answer |-> Apology]
                    /\ created = <<[question |-> query, answer |-> Apology]>>

\* C28 witness: both attempts for a question failed and the endpoint has answered 200
\* with the apology
C28_Witness ==
    /\ request # <<>>
    /\ pc = "responded"
    /\ ollama # <<>>
    /\ ollama.reachable
    /\ Len(requests) = 2
    /\ requests[1].reply.status # 200
    /\ requests[2].reply.raised = "Timeout"
    /\ response.status = 200
    /\ response.answer = Apology
    /\ Len(created) = 1

\* C29: a ChatMessage is stored only after get_answer has returned for the request:
\* while the request is in progress nothing is stored; a valid request whose
\* get_answer returned has stored one ChatMessage with its question and the answer
\* returned and is answered 200 with that answer; a request whose get_answer raised
\* has stored none and is answered 500 with the type and the message of the error.
C29_StoredAfterAnswer ==
    request # <<>> =>
        /\ pc # "responded" => created = <<>> /\ response = <<>>
        /\ pc = "responded" /\ is_valid(request[1]) =>
              IF exception = ""
              THEN /\ created = <<[question |-> strip(request[1]), answer |-> answer]>>
                   /\ response = [status |-> 200, answer |-> answer]
              ELSE /\ created = <<>>
                   /\ response = [status |-> 500, error |-> message(exception), type |-> exception]
                   /\ exception \in {"RuntimeError", "IndexError"}

\* C29 witness: the answer of the model for a posted question is stored and sent
C29_Witness ==
    /\ request # <<>>
    /\ pc = "responded"
    /\ requests # <<>>
    /\ last_request.reply.status = 200
    /\ created = <<[question |-> "quien establece el calendario",
                    answer |-> "El Consejo Universitario establece el calendario académico."]>>
    /\ response.status = 200

\* C30: _generate_hypothetical_document returns the text of the model, stripped, when
\* Ollama is reachable, answers with status 200 and the stripped text is longer than
\* 50 characters, and returns the query as it was given in every other case.
C30_HypotheticalDocument ==
    call = "_generate_hypothetical_document" /\ pc = "hyde_returned" =>
        \A reply \in {ollama.reply} : \A text \in {strip(reply.response)} :
            answer = IF ollama.reachable /\ reply.raised = "" /\ reply.status = 200
                        /\ Len(text) > 50
                     THEN text ELSE query
====
